---- MODULE Spec2Model ----
(***************************************************************************)
(* A model of the replication engine of the ins coordination service:      *)
(* InsNodeImpl (election, voting, log replication, commit, apply),         *)
(* BinLogger (the binary log) and Meta (term and vote files).              *)
(*                                                                         *)
(* Every member of the cluster runs the same code; each variable below is  *)
(* a function from the member to the value of the C++ field of that name.  *)
(* RPCs are records in the set net; the transport may lose, delay and      *)
(* reorder them.                                                           *)
(***************************************************************************)
EXTENDS Integers, Sequences, FiniteSets, TLC

\* ------------------------------------------------------------------------
\* Bounds of the model
\* ------------------------------------------------------------------------
\* elections started (by all members together) in one behaviour; the
\* election timers stop after the last one
MaxElection == 2
\* heartbeat broadcasts in one behaviour
MaxHeartbeat == 1
\* failed SendRequest calls in one behaviour
MaxRpcError == 1
\* the transport holds at once MaxNet times the messages by which a
\* broadcast reaches a majority (more are lost)
MaxNet == 1
\* process restarts in one behaviour
MaxRestart == 1
\* client write requests accepted in one behaviour
MaxClientOps == 1
\* elections, heartbeat broadcasts, failed calls, restarts and client writes
\* in one behaviour, all together
MaxEvent == 3
\* the terms a behaviour reaches
MaxTerm == 3
\* elections in a behaviour of a cluster of three that has a client write,
\* a failed call or a restart
MaxFaultElection == 1
\* events and client writes in one behaviour of the cluster of two
MaxBusyEvent == 4
MaxBusyOps == 2
\* events and client writes in one behaviour with changes of leadership
MaxAckEvent == 4
MaxAckOps == 2
\* rejections of client requests in one behaviour
MaxReply == 2
\* events and client requests in one behaviour of the cluster with sessions
MaxSessionEvent == 4
MaxSessionOps == 3
\* the Get requests answered in a behaviour
MaxRead == 2
\* events and client writes in one behaviour of the single node
MaxSingleEvent == 4
MaxSingleOps == 3
\* client writes in one behaviour of the cluster with one election
MaxHappyOps == 1
\* client writes, locks and session reports in one behaviour of the single
\* node that keeps watches
MaxWatchOps == 3
\* the elections and client writes of a behaviour in which the reaper of
\* sessions runs while leadership changes
MaxReaperEvent == 4
\* the greatest key of the store that Scan walks, the greatest size_limit of
\* a scan and the scans of one behaviour
MaxScanKey == 3
MaxScanLimit == 2
MaxScan == 1
\* the calls of heartbeats for read that fail in one behaviour
MaxReadError == 2

\* ------------------------------------------------------------------------
\* Program constants and flags
\* ------------------------------------------------------------------------
\* the machines a cluster is made of; members_ is a set of them
Server == {"A", "B", "C", "D", "E"}
\* FLAGS_log_rep_batch_max
log_rep_batch_max == 2
\* FLAGS_max_commit_pending
max_commit_pending == 1
\* FLAGS_max_write_pending
max_write_pending == 1
\* threads of the follower_worker_ pool
follower_worker_threads == 2

kFollower == "kFollower"
kCandidate == "kCandidate"
kLeader == "kLeader"

kNop == "kNop"
kPut == "kPut"
kLock == "kLock"
kUnLock == "kUnLock"

\* the values client requests carry: a Put value, a Lock session id
PutValue == {"v1"}
Session == {"s1"}
\* the session ids of the clients of a cluster that keeps sessions
Client == {"s1", "s2"}

NoServer == "none"
\* a term is reached by an election
Terms == 1..MaxTerm

\* a LogEntry (binlog.h); one key and the anonymous user are modelled
LogEntry(term, op, value) == [term |-> term, op |-> op, value |-> value]
\* the value of a key that is not in data_store_
NotFound == [op |-> "kNotFound", value |-> ""]

Min(a, b) == IF a < b THEN a ELSE b
Max(a, b) == IF a > b THEN a ELSE b

\* the keys of the store that Scan walks, in the order of the iterator;
\* tag_last_applied_index is one of them, NoKey is the empty key of a request
ScanKey == 0..MaxScanKey
tag_last_applied_index == 1
NoKey == -1

\* the reaper of sessions is between two cycles
NoCycle == [pc |-> "wait", cur_term |-> 0, cur_status |-> kFollower]

\* no Get waits for the answers to its heartbeats
NoRead == [succ_count |-> 0, err_count |-> 0, triggered |-> TRUE, calls |-> {}]

VARIABLES
  \* InsNodeImpl: the cluster, the same list in every member, fixed at construction
  members_,
  \* InsNodeImpl, guarded by mu_
  current_term_,        \* also the last line of term.data (written on every change)
  status_,
  voted_for_,           \* std::map term -> candidate; NoServer = no entry
  vote_grant_,          \* std::map term -> count; 0 = no entry
  heartbeat_count_,
  in_safe_mode_,
  commit_index_,
  last_applied_index_,  \* also #TAG_LAST_APPLIED_INDEX# of data_store_
  client_ack_,          \* std::map index -> ClientAck: the pending client acks,
                        \* each with the entry its request appended
  current_leader_,
  sessions_,            \* the ids of the live sessions
  session_locks_,       \* the sessions whose set of locked keys holds the key
  watch_events_,        \* the sessions that watch the key
  session_checker_,     \* RemoveExpiredSessions: position, cur_term and
                        \* cur_status of the cycle under way
  server_start_timestamp_,  \* TRUE while now - server_start_timestamp_ is
                        \* within FLAGS_session_expire_timeout
  event_trigger_,       \* the TriggerEventWithParent tasks of the pool that
                        \* have not run
  heartbeat_read_timestamp_,  \* TRUE while now - heartbeat_read_timestamp_ is
                        \* within 1000 * FLAGS_elect_timeout_min
  read_ack_,            \* the ClientReadAck of the Get under way, or NoRead;
                        \* calls: the members whose HeartbeatForReadCallback,
                        \* bound to this context, has not run
  next_index_,
  match_index_,
  replicating_,
  \* Meta: the last record of vote.data, <<term, candidate>> or <<>>
  vote_file,
  \* BinLogger
  slots,                \* the slots of the store, also those beyond length_
  length_,
  last_log_term_,
  \* data_store_: the tagged value of the key
  data_store_,
  \* data_store_: the tagged values of the keys an iterator of Scan walks,
  \* by key; they are on disk and the same for every member
  dbs_,
  \* threads
  replicator,           \* ReplicateLog(follower): position and locals
  follower_worker,      \* DoAppendEntries between mu_.Unlock() and mu_.Lock()
  committer,            \* CommitIndexObserv: position and locals
  \* the transport
  net,
  \* history, for the bounds and the properties
  restarts,             \* per member: the times its process was started again
  client_ops,
  elections,
  heartbeats,
  rpc_errors,
  elected,              \* <<node, term>> of every TransToLeader
  granted,              \* <<voter, term, candidate, restarts of the voter>>
                        \* of every vote given
  refused,              \* the same of every vote refused
  committed,            \* <<index, entry, term>> of every leader commit
  replies,              \* the responses given to clients
  applied,              \* <<node, index, entry>> of every entry applied
  watch_done,           \* the responses of Watch that were completed
  \* the events a behaviour may have, fixed at its start
  budget

\* the events of the behaviour so far, and whether it may have one more
Restarts == restarts["A"] + restarts["B"] + restarts["C"] + restarts["D"] + restarts["E"]
Events == elections + heartbeats + rpc_errors + Restarts + client_ops
Budget(events, elect, beats, fails, starts, writes) ==
  [events |-> events, elections |-> elect, heartbeats |-> beats, rpc_errors |-> fails,
   restarts |-> starts, client_ops |-> writes]
MayElect == elections < budget.elections /\ Events < budget.events
MayBeat == heartbeats < budget.heartbeats /\ Events < budget.events
MayFail == rpc_errors < budget.rpc_errors /\ Events < budget.events
MayRestart == Restarts < budget.restarts /\ Events < budget.events
MayWrite == client_ops < budget.client_ops /\ Events < budget.events

nodeVars == <<current_term_, status_, voted_for_, vote_grant_, heartbeat_count_,
              in_safe_mode_, commit_index_, last_applied_index_, client_ack_>>
leaderVars == <<next_index_, match_index_, replicating_, replicator>>
logVars == <<slots, length_, last_log_term_>>
sessionVars == <<sessions_, session_locks_, watch_events_>>
readVars == <<heartbeat_read_timestamp_, read_ack_>>
histVars == <<restarts, client_ops, elections, heartbeats, rpc_errors, elected,
             granted, refused, committed>>
vars == <<members_, budget, dbs_, session_checker_, server_start_timestamp_, event_trigger_, watch_done, applied, readVars, sessionVars, current_leader_, replies, nodeVars, leaderVars,
          logVars, vote_file, data_store_, follower_worker, committer, net, histVars>>

\* ------------------------------------------------------------------------
\* BinLogger (src/storage/binlog.cc)
\* ------------------------------------------------------------------------
\* the log a reader that honours length_ sees
Log(n) == SubSeq(slots[n], 1, length_[n])

\* ReadSlot(i): db_->Get of slot i (0-based), whatever length_ is
SlotOk(n, i) == i >= 0 /\ i < Len(slots[n])
ReadSlot(n, i) == slots[n][i + 1]

GetLastLogIndex(n) == length_[n] - 1

\* the slots after writing es at index at (0-based): later slots stay
WriteSlots(s, at, es) ==
  [i \in 1..Max(Len(s), at + Len(es)) |->
     IF i > at /\ i <= at + Len(es) THEN es[i - at] ELSE s[i]]

\* AppendEntry / AppendEntryList: the entries go to slots length_ ..., the
\* length tag follows, last_log_term_ is the term of the last one written
AppendedSlots(n, es) == WriteSlots(slots[n], length_[n], es)
AppendedLastTerm(n, es) == IF Len(es) > 0 THEN es[Len(es)].term ELSE last_log_term_[n]

\* a mistaken truncation: the slot after trunk_slot_index is kept
TruncatedAfter(trunk_slot_index) ==
  IF trunk_slot_index < -1 THEN 1 ELSE trunk_slot_index + 2

\* Truncate(trunk_slot_index): the new length_
TruncatedLength(trunk_slot_index) ==
  IF trunk_slot_index < -1 THEN 0 ELSE trunk_slot_index + 1
\* Truncate: last_log_term_ is re-read only when the log stays non-empty
TruncatedLastTerm(n, trunk_slot_index) ==
  IF TruncatedLength(trunk_slot_index) > 0
    THEN ReadSlot(n, TruncatedLength(trunk_slot_index) - 1).term
    ELSE last_log_term_[n]

\* ------------------------------------------------------------------------
\* The transport (src/rpc/rpc_client.h): a request or response that is sent
\* reaches the network or is lost; the network holds at most MaxNet messages
\* ------------------------------------------------------------------------
Others(n) == members_ \ {n}

\* the networks that may result from sending the messages ms: as many of
\* them as the network has room for are under way, the others are lost
Capacity == MaxNet * (Cardinality(members_) \div 2)
Fits(t) == Cardinality(net \cup t) <= Capacity
Sent(ms) == {net \cup s : s \in {t \in SUBSET ms :
               Fits(t) /\ \A x \in ms \ t : ~Fits(t \cup {x})}}

\* a full network loses a message nobody waits for (a message that is never
\* delivered is as good as lost, so only a full network needs to lose one)
Lose(m) ==
  /\ m \in net
  /\ Cardinality(net) >= Capacity
  /\ ~(m.type \in {"AppendEntriesRequest", "AppendEntriesResponse"} /\ m.rpc = "sync")
  /\ net' = net \ {m}
  /\ UNCHANGED <<members_, budget, dbs_, session_checker_, server_start_timestamp_, event_trigger_, watch_done, applied, readVars, sessionVars, current_leader_, replies, nodeVars, leaderVars, logVars, vote_file, data_store_,
                 follower_worker, committer, histVars>>

\* a mistaken request: the log of the candidate is not named
VoteRequestNoLog(from, to, term, last_log_index, last_log_term) ==
  [type |-> "VoteRequest", from |-> from, to |-> to, term |-> term,
   last_log_index |-> -1, last_log_term |-> -1]

VoteRequest(from, to, term, last_log_index, last_log_term) ==
  [type |-> "VoteRequest", from |-> from, to |-> to, term |-> term,
   last_log_index |-> last_log_index, last_log_term |-> last_log_term]
VoteResponse(from, to, term, vote_granted) ==
  [type |-> "VoteResponse", from |-> from, to |-> to, term |-> term,
   vote_granted |-> vote_granted]

\* ------------------------------------------------------------------------
\* Election (src/server/ins_node_impl.cc)
\* ------------------------------------------------------------------------
\* StartReplicateLog: the followers that get a new replicator task
NewReplicated(n) == Others(n) \ replicating_[n]

\* TransToLeader and StartReplicateLog, as the primed values of node n
TransToLeader(n) ==
  /\ in_safe_mode_' = [in_safe_mode_ EXCEPT ![n] = TRUE]
  /\ status_' = [status_ EXCEPT ![n] = kLeader]
  /\ current_leader_' = [current_leader_ EXCEPT ![n] = n]
  /\ next_index_' = [next_index_ EXCEPT ![n] =
       [f \in Server |-> IF f \in NewReplicated(n) THEN length_[n] ELSE @[f]]]
  /\ match_index_' = [match_index_ EXCEPT ![n] =
       [f \in Server |-> IF f \in NewReplicated(n) THEN -1 ELSE @[f]]]
  /\ replicating_' = [replicating_ EXCEPT ![n] = Others(n)]
  /\ replicator' = [replicator EXCEPT ![n] =
       [f \in Server |-> IF f \in NewReplicated(n)
          THEN [pc |-> "wait", index |-> 0, batch_span |-> 0, max_term |-> -1,
                latest_replicating_ok |-> TRUE]
          ELSE @[f]]]
  /\ slots' = [slots EXCEPT ![n] =
       AppendedSlots(n, <<LogEntry(current_term_[n], kNop, "")>>)]
  /\ length_' = [length_ EXCEPT ![n] = @ + 1]
  /\ last_log_term_' = [last_log_term_ EXCEPT ![n] = current_term_[n]]
  /\ elected' = elected \cup {<<n, current_term_[n]>>}

\* the members are interchangeable: the members that start the first k
\* elections of a behaviour are named by the first k of this order
Order == <<"A", "B", "C", "D", "E">>
MayStart(n) == \E i \in 1..Min(elections + 1, Len(Order)) : Order[i] = n

\* InitMembers: single_node_mode_ (lines 107-109)
SingleNodeMode == Cardinality(members_) = 1

\* a mistaken start: what was applied before the start is not looked at
NothingCommitted(n) == -1

\* TryToBeLeader in single node mode: the commit_index_ it sets (line 636)
AppliedIsCommitted(n) == last_applied_index_[n]

\* the election timer fires in single node mode (lines 631-640); the timer
\* is not set again, so it fires once after the start of the process
TryToBeLeaderSingleNode(n) ==
  /\ SingleNodeMode
  /\ status_[n] = kFollower
  /\ status_' = [status_ EXCEPT ![n] = kLeader]
  /\ current_leader_' = [current_leader_ EXCEPT ![n] = n]
  /\ in_safe_mode_' = [in_safe_mode_ EXCEPT ![n] = FALSE]
  /\ commit_index_' = [commit_index_ EXCEPT ![n] = AppliedIsCommitted(n)]
  /\ current_term_' = [current_term_ EXCEPT ![n] = @ + 1]
  /\ UNCHANGED <<members_, budget, dbs_, session_checker_, server_start_timestamp_, event_trigger_, watch_done, applied, readVars, sessionVars, replies, voted_for_,
                 vote_grant_, heartbeat_count_, last_applied_index_, client_ack_,
                 leaderVars, logVars, vote_file, data_store_, follower_worker,
                 committer, net, histVars>>

\* the election timer fires in cluster mode
TryToBeLeader(n) ==
  /\ ~SingleNodeMode
  /\ status_[n] # kLeader
  /\ MayElect
  /\ MayStart(n)
  /\ IF status_[n] = kFollower /\ heartbeat_count_[n] > 0
       THEN /\ heartbeat_count_' = [heartbeat_count_ EXCEPT ![n] = 0]
            /\ UNCHANGED <<current_term_, status_, voted_for_, vote_grant_, vote_file,
                           net, granted, elections>>
       ELSE /\ elections' = elections + 1
            /\ current_term_' = [current_term_ EXCEPT ![n] = @ + 1]
            /\ status_' = [status_ EXCEPT ![n] = kCandidate]
            /\ voted_for_' = [voted_for_ EXCEPT ![n] =
                 [t \in Terms |-> IF t = current_term_[n] + 1 THEN n ELSE NoServer]]
            /\ vote_file' = [vote_file EXCEPT ![n] = <<current_term_[n] + 1, n>>]
            /\ vote_grant_' = [vote_grant_ EXCEPT ![n] =
                 [t \in Terms |-> IF t = current_term_[n] + 1 THEN 1 ELSE 0]]
            /\ granted' = granted \cup {<<n, current_term_[n] + 1, n, restarts[n]>>}
            /\ net' \in Sent({VoteRequest(n, f, current_term_[n] + 1,
                                          length_[n] - 1, last_log_term_[n]) :
                              f \in Others(n)})
            /\ UNCHANGED heartbeat_count_
  /\ UNCHANGED <<members_, budget, dbs_, session_checker_, server_start_timestamp_, event_trigger_, watch_done, applied, readVars, sessionVars, current_leader_, replies, in_safe_mode_, commit_index_, last_applied_index_, client_ack_,
                 leaderVars, logVars, data_store_, follower_worker, committer,
                 restarts, client_ops, heartbeats, rpc_errors, elected, refused,
                 committed>>

\* the networks after the Vote handler answered request m with r. A refusal
\* whose term is not above the request's is left out: VoteCallback ignores
\* it (the candidate's term is never below the term it asked with), as if lost
VoteReplied(m, r) ==
  IF r.vote_granted \/ r.term > m.term THEN {(net \ {m}) \cup {r}} ELSE {net \ {m}}

\* a mistaken comparison: the lengths of the logs are not looked at
VoteTermOnly(n, m) == m.last_log_term < last_log_term_[n]

\* the Vote handler: the reply, and the term and vote it leaves
VoteLogRefused(n, m) ==
  \/ m.last_log_term < last_log_term_[n]
  \/ m.last_log_term = last_log_term_[n] /\ m.last_log_index < length_[n] - 1

Vote(n, m) ==
  /\ m \in net /\ m.type = "VoteRequest" /\ m.to = n
  /\ LET term == IF m.term > current_term_[n] THEN m.term ELSE current_term_[n]
         refuse(t) == VoteResponse(n, m.from, t, FALSE)
     IN
     IF m.term < current_term_[n] \/ VoteLogRefused(n, m)
       THEN /\ net' \in VoteReplied(m, refuse(current_term_[n]))
            /\ refused' = refused \cup {<<n, current_term_[n], m.from, restarts[n]>>}
            /\ UNCHANGED <<current_term_, status_, voted_for_, vote_file, granted>>
       ELSE /\ current_term_' = [current_term_ EXCEPT ![n] = term]
            /\ status_' = [status_ EXCEPT ![n] =
                 IF m.term > current_term_[n] THEN kFollower ELSE @]
            /\ IF voted_for_[n][term] = NoServer
                 THEN /\ voted_for_' = [voted_for_ EXCEPT ![n][term] = m.from]
                      /\ vote_file' = [vote_file EXCEPT ![n] = <<term, m.from>>]
                 ELSE UNCHANGED <<voted_for_, vote_file>>
            /\ IF voted_for_[n][term] \in {NoServer, m.from}
                 THEN /\ granted' = granted \cup {<<n, term, m.from, restarts[n]>>}
                      /\ net' \in VoteReplied(m, VoteResponse(n, m.from, term, TRUE))
                      /\ UNCHANGED refused
                 ELSE /\ refused' = refused \cup {<<n, term, m.from, restarts[n]>>}
                      /\ net' \in VoteReplied(m, refuse(term))
                      /\ UNCHANGED granted
  /\ UNCHANGED <<members_, budget, dbs_, session_checker_, server_start_timestamp_, event_trigger_, watch_done, applied, readVars, sessionVars, current_leader_, replies, vote_grant_, heartbeat_count_, in_safe_mode_, commit_index_,
                 last_applied_index_, client_ack_, leaderVars, logVars, data_store_,
                 follower_worker, committer, restarts, client_ops, elections, heartbeats,
                 rpc_errors, elected, committed>>

\* a mistaken count: half of the cluster is enough
HalfIsEnough(count) == 2 * count >= Cardinality(members_)

\* VoteCallback: the count of grants that makes a leader (line 614)
Majority(count) == 2 * count > Cardinality(members_)

\* VoteCallback with failed = false
VoteCallback(n, m) ==
  /\ m \in net /\ m.type = "VoteResponse" /\ m.to = n
  /\ net' = net \ {m}
  /\ IF status_[n] # kCandidate
       THEN UNCHANGED <<current_term_, status_, vote_grant_, in_safe_mode_,
                        current_leader_, leaderVars, logVars, elected>>
       ELSE IF m.vote_granted /\ m.term = current_term_[n]
         THEN /\ vote_grant_' = [vote_grant_ EXCEPT ![n][current_term_[n]] = @ + 1]
              /\ IF Majority(vote_grant_[n][current_term_[n]] + 1)
                   THEN TransToLeader(n)
                   ELSE UNCHANGED <<status_, in_safe_mode_, current_leader_, leaderVars,
                                    logVars, elected>>
              /\ UNCHANGED current_term_
         ELSE /\ IF m.term > current_term_[n]
                   THEN /\ status_' = [status_ EXCEPT ![n] = kFollower]
                        /\ current_term_' = [current_term_ EXCEPT ![n] = m.term]
                   ELSE UNCHANGED <<status_, current_term_>>
              /\ UNCHANGED <<vote_grant_, in_safe_mode_, current_leader_, leaderVars,
                             logVars, elected>>
  /\ UNCHANGED <<members_, budget, dbs_, session_checker_, server_start_timestamp_, event_trigger_, watch_done, applied, readVars, sessionVars, replies, voted_for_, heartbeat_count_, commit_index_, last_applied_index_,
                 client_ack_, vote_file, data_store_, follower_worker, committer,
                 restarts, client_ops, elections, heartbeats, rpc_errors, granted,
                 refused, committed>>

\* ------------------------------------------------------------------------
\* Log replication, leader side
\* ------------------------------------------------------------------------
AppendEntriesRequest(from, to, term, prev_log_index, prev_log_term, leader_commit_index, entries, rpc) ==
  [type |-> "AppendEntriesRequest", from |-> from, to |-> to, term |-> term,
   prev_log_index |-> prev_log_index, prev_log_term |-> prev_log_term,
   leader_commit_index |-> leader_commit_index, entries |-> entries, rpc |-> rpc]
AppendEntriesResponse(from, to, current_term, success, log_length, is_busy, rpc) ==
  [type |-> "AppendEntriesResponse", from |-> from, to |-> to,
   current_term |-> current_term, success |-> success, log_length |-> log_length,
   is_busy |-> is_busy, rpc |-> rpc]

\* rpc: "sync" = SendRequest of ReplicateLog, its thread waits for the answer;
\* "orphan" = a SendRequest whose caller gave up (timeout), still under way;
\* "heartbeat" = AsyncRequest of BroadCastHeartbeat
MaxTermOf(es) == IF Len(es) = 0 THEN -1
                 ELSE CHOOSE t \in {es[i].term : i \in 1..Len(es)} :
                        \A i \in 1..Len(es) : es[i].term <= t

\* UpdateCommitIndex(a_index): match_index_[server] is read for every member,
\* self included, so self holds the default 0 and size() is the cluster size
MatchCount(n, a_index) ==
  Cardinality({m \in members_ : (IF m = n THEN 0 ELSE match_index_'[n][m]) >= a_index})
\* a leader that counts no member as a match
CommitStays(n, a_index) == MatchCount(n, a_index) > Cardinality(members_)
CommitAdvances(n, a_index) ==
  MatchCount(n, a_index) >= Cardinality(members_) \div 2 /\ a_index > commit_index_[n]
UpdateCommitIndex(n, a_index) ==
  IF CommitAdvances(n, a_index)
    THEN /\ commit_index_' = [commit_index_ EXCEPT ![n] = a_index]
         /\ committed' = committed \cup
              {<<i, ReadSlot(n, i), current_term_[n]>> : i \in 0..a_index}
    ELSE UNCHANGED <<commit_index_, committed>>

\* ReplicateLog: lines 910-966, the request is built and SendRequest called
ReplicateLogSend(n, f) ==
  /\ replicator[n][f].pc = "wait"
  /\ status_[n] = kLeader
  /\ length_[n] > next_index_[n][f]
  /\ LET index == next_index_[n][f]
         prev_index == index - 1
         prev_term == IF prev_index > -1 THEN ReadSlot(n, prev_index).term ELSE -1
         span == Min(length_[n] - index, log_rep_batch_max)
         batch_span == IF replicator[n][f].latest_replicating_ok THEN span
                       ELSE Min(1, span)
         entries == [i \in 1..batch_span |-> ReadSlot(n, index + i - 1)]
     IN /\ replicator' = [replicator EXCEPT ![n][f] =
             [@ EXCEPT !.pc = "rpc", !.index = index, !.batch_span = batch_span,
                       !.max_term = MaxTermOf(entries)]]
        /\ net' \in Sent({AppendEntriesRequest(n, f, current_term_[n], prev_index,
                            prev_term, commit_index_[n], entries, "sync")})
  /\ UNCHANGED <<members_, budget, dbs_, session_checker_, server_start_timestamp_, event_trigger_, watch_done, applied, readVars, sessionVars, current_leader_, replies, nodeVars, next_index_, match_index_, replicating_, logVars,
                 vote_file, data_store_, follower_worker, committer, histVars>>

\* ReplicateLog: the loop is left, the task ends (lines 898-908, 1007)
ReplicateLogExit(n, f) ==
  /\ replicator[n][f].pc = "wait"
  /\ status_[n] # kLeader
  /\ replicator' = [replicator EXCEPT ![n][f].pc = "none"]
  /\ replicating_' = [replicating_ EXCEPT ![n] = @ \ {f}]
  /\ UNCHANGED <<members_, budget, dbs_, session_checker_, server_start_timestamp_, event_trigger_, watch_done, applied, readVars, sessionVars, current_leader_, replies, nodeVars, next_index_, match_index_, logVars, vote_file,
                 data_store_, follower_worker, committer, net, histVars>>

\* ReplicateLog: SendRequest returned true with response m (lines 967-998)
ReplicateLogResponse(n, f, m) ==
  /\ m \in net /\ m.type = "AppendEntriesResponse" /\ m.rpc = "sync"
  /\ m.to = n /\ m.from = f
  /\ replicator[n][f].pc = "rpc"
  /\ net' = net \ {m}
  /\ LET r == replicator[n][f]
         last == r.index + r.batch_span - 1
     IN
     IF m.current_term > current_term_[n] \/ status_[n] # kLeader
       THEN /\ IF m.current_term > current_term_[n]
                 THEN /\ status_' = [status_ EXCEPT ![n] = kFollower]
                      /\ current_term_' = [current_term_ EXCEPT ![n] = m.current_term]
                 ELSE UNCHANGED <<status_, current_term_>>
            /\ replicator' = [replicator EXCEPT ![n][f].pc = "none"]
            /\ replicating_' = [replicating_ EXCEPT ![n] = @ \ {f}]
            /\ UNCHANGED <<next_index_, match_index_, commit_index_, committed>>
       ELSE /\ UNCHANGED <<status_, current_term_, replicating_>>
            /\ IF m.success
                 THEN /\ next_index_' = [next_index_ EXCEPT ![n][f] = last + 1]
                      /\ match_index_' = [match_index_ EXCEPT ![n][f] = last]
                      /\ IF r.max_term = current_term_[n]
                           THEN UpdateCommitIndex(n, last)
                           ELSE UNCHANGED <<commit_index_, committed>>
                      /\ replicator' = [replicator EXCEPT ![n][f] =
                           [@ EXCEPT !.pc = "wait", !.latest_replicating_ok = TRUE]]
                 ELSE IF m.is_busy
                   THEN /\ replicator' = [replicator EXCEPT ![n][f] =
                             [@ EXCEPT !.pc = "wait", !.latest_replicating_ok = TRUE]]
                        /\ UNCHANGED <<next_index_, match_index_, commit_index_,
                                       committed>>
                   ELSE /\ next_index_' = [next_index_ EXCEPT ![n][f] =
                             Max(0, Min(@ - 1, m.log_length))]
                        /\ replicator' = [replicator EXCEPT ![n][f].pc = "wait"]
                        /\ UNCHANGED <<match_index_, commit_index_, committed>>
  /\ UNCHANGED <<members_, budget, dbs_, session_checker_, server_start_timestamp_, event_trigger_, watch_done, applied, readVars, sessionVars, current_leader_, replies, voted_for_, vote_grant_, heartbeat_count_, in_safe_mode_,
                 last_applied_index_, client_ack_, logVars, vote_file, data_store_,
                 follower_worker, committer, restarts, client_ops, elections,
                 heartbeats, rpc_errors, elected, granted, refused>>

\* the messages and handlers of a SendRequest from n to f that its caller
\* abandons: the request may still arrive, its answer reaches nobody
Abandoned(n, f, ms) ==
  {IF m.type = "AppendEntriesRequest" /\ m.rpc = "sync" /\ m.from = n /\ m.to = f
     THEN [m EXCEPT !.rpc = "orphan"] ELSE m :
   m \in {x \in ms : ~(x.type = "AppendEntriesResponse" /\ x.rpc = "sync"
                       /\ x.to = n /\ x.from = f)}}
AbandonedJobs(n, f, jobs) ==
  {IF j.from = n /\ j.rpc = "sync" THEN [j EXCEPT !.rpc = "orphan"] ELSE j : j \in jobs}

\* ReplicateLog: SendRequest returned false (lines 967-975, 999-1005)
ReplicateLogRpcError(n, f) ==
  /\ replicator[n][f].pc = "rpc"
  /\ MayFail
  /\ rpc_errors' = rpc_errors + 1
  /\ net' = Abandoned(n, f, net)
  /\ follower_worker' = [follower_worker EXCEPT ![f] = AbandonedJobs(n, f, @)]
  /\ IF status_[n] # kLeader
       THEN /\ replicator' = [replicator EXCEPT ![n][f].pc = "none"]
            /\ replicating_' = [replicating_ EXCEPT ![n] = @ \ {f}]
       ELSE /\ replicator' = [replicator EXCEPT ![n][f] =
                 [@ EXCEPT !.pc = "wait", !.latest_replicating_ok = FALSE]]
            /\ UNCHANGED replicating_
  /\ UNCHANGED <<members_, budget, dbs_, session_checker_, server_start_timestamp_, event_trigger_, watch_done, applied, readVars, sessionVars, current_leader_, replies, nodeVars, next_index_, match_index_, logVars, vote_file,
                 data_store_, committer, restarts, client_ops, elections, heartbeats,
                 elected, granted, refused, committed>>

\* BroadCastHeartbeat
BroadCastHeartbeat(n) ==
  /\ status_[n] = kLeader
  /\ MayBeat
  /\ heartbeats' = heartbeats + 1
  /\ net' \in Sent({AppendEntriesRequest(n, f, current_term_[n], 0, 0,
                      commit_index_[n], <<>>, "heartbeat") : f \in Others(n)})
  /\ net' # net
  /\ UNCHANGED <<members_, budget, dbs_, session_checker_, server_start_timestamp_, event_trigger_, watch_done, applied, readVars, sessionVars, current_leader_, replies, nodeVars, leaderVars, logVars, vote_file, data_store_,
                 follower_worker, committer, restarts, client_ops, elections,
                 rpc_errors, elected, granted, refused, committed>>

\* HeartbeatCallback with failed = false
HeartbeatCallback(n, m) ==
  /\ m \in net /\ m.type = "AppendEntriesResponse" /\ m.rpc = "heartbeat" /\ m.to = n
  /\ net' = net \ {m}
  /\ IF status_[n] = kLeader /\ m.current_term > current_term_[n]
       THEN /\ status_' = [status_ EXCEPT ![n] = kFollower]
            /\ current_term_' = [current_term_ EXCEPT ![n] = m.current_term]
       ELSE UNCHANGED <<status_, current_term_>>
  /\ UNCHANGED <<members_, budget, dbs_, session_checker_, server_start_timestamp_, event_trigger_, watch_done, applied, readVars, sessionVars, current_leader_, replies, voted_for_, vote_grant_, heartbeat_count_, in_safe_mode_,
                 commit_index_, last_applied_index_, client_ack_, leaderVars, logVars,
                 vote_file, data_store_, follower_worker, committer, histVars>>

\* ------------------------------------------------------------------------
\* Log replication, follower side
\* ------------------------------------------------------------------------
\* the networks after request m was answered with r. The answer to an orphan
\* reaches nobody. The answer to a heartbeat of BroadCastHeartbeat is left
\* out unless it carries a term above the request's: HeartbeatCallback
\* ignores any other
Answered(m, r) ==
  IF m.rpc \in {"sync", "read"} THEN {(net \ {m}) \cup {r}}
  ELSE IF m.rpc = "heartbeat" /\ r.current_term > m.term
    THEN {(net \ {m}) \cup {r}}
    ELSE {net \ {m}}

\* a mistaken test: one more pending commit is let through
BusyAboveLimit(n) == commit_index_[n] - last_applied_index_[n] > max_commit_pending + 1

\* DoAppendEntries: the apply worker is too far behind (line 760)
IsBusy(n) == commit_index_[n] - last_applied_index_[n] > max_commit_pending

\* DoAppendEntries up to mu_.Unlock() (line 776) or to its return
DoAppendEntries(n, m) ==
  /\ m \in net /\ m.type = "AppendEntriesRequest" /\ m.to = n
  /\ Cardinality(follower_worker[n]) < follower_worker_threads
  /\ LET L == length_[n]
         term == Max(m.term, current_term_[n])
         response(success, log_length, is_busy) ==
           AppendEntriesResponse(n, m.from, term, success, log_length, is_busy, m.rpc)
         prev_log_term == IF m.prev_log_index >= 0
                            THEN ReadSlot(n, m.prev_log_index).term ELSE -1
     IN
     IF m.term < current_term_[n]
       THEN /\ net' \in Answered(m, response(FALSE, L, FALSE))
            /\ UNCHANGED <<current_term_, status_, heartbeat_count_, commit_index_,
                           current_leader_, logVars, follower_worker>>
       ELSE
         /\ status_' = [status_ EXCEPT ![n] = kFollower]
         /\ current_leader_' = [current_leader_ EXCEPT ![n] = m.from]
         /\ current_term_' = [current_term_ EXCEPT ![n] = term]
         /\ heartbeat_count_' = [heartbeat_count_ EXCEPT ![n] = 1]
         /\ IF Len(m.entries) > 0
              THEN
                IF m.prev_log_index >= L
                  THEN /\ net' \in Answered(m, response(FALSE, L, FALSE))
                       /\ UNCHANGED <<commit_index_, logVars, follower_worker>>
                ELSE IF prev_log_term # m.prev_log_term
                  THEN /\ length_' = [length_ EXCEPT ![n] =
                            TruncatedLength(m.prev_log_index - 1)]
                       /\ last_log_term_' = [last_log_term_ EXCEPT ![n] =
                            TruncatedLastTerm(n, m.prev_log_index - 1)]
                       /\ net' \in Answered(m, response(FALSE,
                            TruncatedLength(m.prev_log_index - 1), FALSE))
                       /\ UNCHANGED <<commit_index_, slots, follower_worker>>
                ELSE IF IsBusy(n)
                  THEN /\ net' \in Answered(m, response(FALSE, L, TRUE))
                       /\ UNCHANGED <<commit_index_, logVars, follower_worker>>
                ELSE
                  /\ IF L > m.prev_log_index + 1
                       THEN /\ length_' = [length_ EXCEPT ![n] =
                                 TruncatedLength(m.prev_log_index)]
                            /\ last_log_term_' = [last_log_term_ EXCEPT ![n] =
                                 TruncatedLastTerm(n, m.prev_log_index)]
                       ELSE UNCHANGED <<length_, last_log_term_>>
                  /\ follower_worker' = [follower_worker EXCEPT ![n] = @ \cup
                       {[from |-> m.from, entries |-> m.entries,
                         leader_commit_index |-> m.leader_commit_index,
                         rpc |-> m.rpc]}]
                  /\ net' = net \ {m}
                  /\ UNCHANGED <<commit_index_, slots>>
              ELSE
                /\ commit_index_' = [commit_index_ EXCEPT ![n] =
                     Min(L - 1, m.leader_commit_index)]
                /\ net' \in Answered(m, response(TRUE, L, FALSE))
                /\ UNCHANGED <<logVars, follower_worker>>
  /\ UNCHANGED <<members_, budget, dbs_, session_checker_, server_start_timestamp_, event_trigger_, watch_done, applied, readVars, sessionVars, replies, voted_for_, vote_grant_,
                 in_safe_mode_, last_applied_index_, client_ack_, leaderVars, vote_file,
                 data_store_, committer, histVars>>

\* DoAppendEntries from AppendEntryList (line 777) to its end
DoAppendEntriesAppend(n, j) ==
  /\ j \in follower_worker[n]
  /\ follower_worker' = [follower_worker EXCEPT ![n] = @ \ {j}]
  /\ slots' = [slots EXCEPT ![n] = AppendedSlots(n, j.entries)]
  /\ length_' = [length_ EXCEPT ![n] = @ + Len(j.entries)]
  /\ last_log_term_' = [last_log_term_ EXCEPT ![n] = AppendedLastTerm(n, j.entries)]
  /\ commit_index_' = [commit_index_ EXCEPT ![n] =
       Min(length_[n] + Len(j.entries) - 1, j.leader_commit_index)]
  /\ net' = IF j.rpc = "sync" /\ Cardinality(net) < Capacity
              THEN net \cup {AppendEntriesResponse(n, j.from, current_term_[n], TRUE,
                               length_[n] + Len(j.entries), FALSE, "sync")}
              ELSE net
  /\ UNCHANGED <<members_, budget, dbs_, session_checker_, server_start_timestamp_, event_trigger_, watch_done, applied, readVars, sessionVars, current_leader_, replies, current_term_, status_, voted_for_, vote_grant_, heartbeat_count_,
                 in_safe_mode_, last_applied_index_, client_ack_, leaderVars,
                 vote_file, data_store_, committer, histVars>>

\* ------------------------------------------------------------------------
\* The apply worker
\* ------------------------------------------------------------------------
\* a mistaken Unlock: the key is deleted whatever it holds
AppliedUnlockAlways(store, log_entry) ==
  IF log_entry.op \in {kPut, kLock}
    THEN [op |-> log_entry.op, value |-> log_entry.value]
  ELSE IF log_entry.op = kUnLock THEN NotFound ELSE store

\* the value data_store_ holds after the entry is applied (lines 248-352)
Applied(store, log_entry) ==
  IF log_entry.op \in {kPut, kLock}
    THEN [op |-> log_entry.op, value |-> log_entry.value]
  ELSE IF log_entry.op = kUnLock /\ store.op = kLock /\ store.value = log_entry.value
    THEN NotFound
    ELSE store

\* the tasks event_trigger_.AddTask is given when log_entry at index i
\* changes the key of store (lines 267-270 and 324-326): the value and the
\* deleted flag of the event; for the properties, index and the sessions
\* whose watch is pending when the entry is applied
EventTasks(store, watchers, i, log_entry) ==
  IF log_entry.op \in {kPut, kLock}
    THEN {[index |-> i, value |-> log_entry.value, deleted |-> FALSE,
           watchers |-> watchers]}
  ELSE IF log_entry.op = kUnLock /\ store.op = kLock /\ store.value = log_entry.value
    THEN {[index |-> i, value |-> log_entry.value, deleted |-> TRUE,
           watchers |-> watchers]}
    ELSE {}

\* a mistaken lookup: the acks of the later indices are found too
AcksFrom(n, i) == {a \in client_ack_[n] : a.index >= i}

\* the acks client_ack_ holds for index i (client_ack_.find(i))
AcksAt(n, i) == {a \in client_ack_[n] : a.index = i}

\* the response that completes ack a in the turn that applied log_entry at
\* index i (lines 358-397): success
AckReply(n, a, i, log_entry) ==
  [rpc |-> "ack", node |-> n, success |-> TRUE, index |-> a.index,
   requested |-> a.log_entry, at |-> i, applied |-> log_entry]

\* CommitIndexObserv: one turn of the loop over the window from
\* last_applied_index_ + 1 to to_idx (lines 240-404)
ApplyTurn(n, to_idx, seen_nop) ==
  LET i == last_applied_index_[n] + 1
      log_entry == ReadSlot(n, i)
      nop_committed == \/ seen_nop
                       \/ log_entry.op = kNop /\ log_entry.term = current_term_[n]
  IN /\ SlotOk(n, i)
     /\ data_store_' = [data_store_ EXCEPT ![n] = Applied(@, log_entry)]
     /\ in_safe_mode_' = [in_safe_mode_ EXCEPT ![n] =
          IF status_[n] = kLeader /\ nop_committed THEN FALSE ELSE @]
     /\ session_locks_' = [session_locks_ EXCEPT ![n] =
          IF log_entry.op = kLock THEN @ \cup {log_entry.value} ELSE @]
     /\ client_ack_' = [client_ack_ EXCEPT ![n] =
          IF status_[n] = kLeader THEN @ \ AcksAt(n, i) ELSE @]
     /\ replies' = IF status_[n] = kLeader
                     THEN replies \cup {AckReply(n, a, i, log_entry) : a \in AcksAt(n, i)}
                     ELSE replies
     /\ last_applied_index_' = [last_applied_index_ EXCEPT ![n] = i]
     /\ committer' = [committer EXCEPT ![n] =
          IF i >= to_idx
            THEN [pc |-> "wait", to_idx |-> -1, nop_committed |-> FALSE]
            ELSE [pc |-> "apply", to_idx |-> to_idx, nop_committed |-> nop_committed]]
     /\ applied' = applied \cup {<<n, i, log_entry>>}
     /\ event_trigger_' = [event_trigger_ EXCEPT ![n] =
          @ \cup EventTasks(data_store_[n], watch_events_[n], i, log_entry)]
     /\ UNCHANGED <<members_, budget, dbs_, session_checker_, server_start_timestamp_, watch_done, readVars, sessions_, watch_events_, current_leader_,
                    current_term_, status_, voted_for_, vote_grant_, heartbeat_count_,
                    commit_index_, leaderVars, logVars, vote_file, follower_worker,
                    net, histVars>>

\* CommitIndexObserv: woken with commit_index_ > last_applied_index_, the
\* window is read (lines 224-236) and its first entry applied
CommitIndexObservWake(n) ==
  /\ committer[n].pc = "wait"
  /\ commit_index_[n] > last_applied_index_[n]
  /\ ApplyTurn(n, commit_index_[n], FALSE)

\* CommitIndexObserv: a later turn of the loop over the window
CommitIndexObservApply(n) ==
  /\ committer[n].pc = "apply"
  /\ ApplyTurn(n, committer[n].to_idx, committer[n].nop_committed)

\* ------------------------------------------------------------------------
\* Client requests
\* ------------------------------------------------------------------------
\* the entry of client_ack_ at index cur_index, with the log entry of its request
ClientAck(cur_index, log_entry) == [index |-> cur_index, log_entry |-> log_entry]

\* a client write appends its entry and registers its ack (Put, lines 1216-1228)
AppendClientEntry(n, op, value) ==
  /\ slots' = [slots EXCEPT ![n] =
       AppendedSlots(n, <<LogEntry(current_term_[n], op, value)>>)]
  /\ length_' = [length_ EXCEPT ![n] = @ + 1]
  /\ last_log_term_' = [last_log_term_ EXCEPT ![n] = current_term_[n]]
  /\ client_ack_' = [client_ack_ EXCEPT ![n] =
       {a \in @ : a.index # length_[n]} \cup
       {ClientAck(length_[n], LogEntry(current_term_[n], op, value))}]
  /\ client_ops' = client_ops + 1

\* Put, accepted (lines 1195-1233); in single node mode UpdateCommitIndex
\* finds match_count >= 1 / 2 and sets commit_index_ to the new last index
Put(n, value) ==
  /\ MayWrite
  /\ status_[n] = kLeader
  /\ ~(Cardinality(client_ack_[n]) > max_write_pending)
  /\ AppendClientEntry(n, kPut, value)
  /\ IF SingleNodeMode /\ length_[n] > commit_index_[n]
       THEN /\ commit_index_' = [commit_index_ EXCEPT ![n] = length_[n]]
            /\ committed' = committed \cup
                 {<<i, slots'[n][i + 1], current_term_[n]>> : i \in 0..length_[n]}
       ELSE UNCHANGED <<commit_index_, committed>>
  /\ UNCHANGED <<members_, budget, dbs_, session_checker_, server_start_timestamp_, event_trigger_, watch_done, applied, readVars, sessionVars, current_leader_, replies, current_term_, status_, voted_for_, vote_grant_, heartbeat_count_,
                 in_safe_mode_, last_applied_index_, leaderVars,
                 vote_file, data_store_, follower_worker, committer, net, restarts,
                 elections, heartbeats, rpc_errors, elected, granted, refused>>

\* a mistaken test: the session of the caller is not looked up
SessionNotLookedUp(store, session_id, sessions) ==
  IF store = NotFound THEN TRUE
  ELSE store.op = kLock /\ (store.value \notin sessions \/ store.value = session_id)

\* LockIsAvailable, sessions being the ids in sessions_
LockIsAvailable(store, session_id, sessions) ==
  IF store = NotFound THEN session_id \in sessions
  ELSE IF store.op # kLock THEN FALSE
  ELSE \/ store.value \notin sessions /\ session_id \in sessions
       \/ store.value \in sessions /\ store.value = session_id

\* Lock, granted; the session table is what KeepAlive and the session reaper
\* made of it, any content
Lock(n, session_id, sessions) ==
  /\ MayWrite
  /\ status_[n] = kLeader
  /\ ~in_safe_mode_[n]
  /\ LockIsAvailable(data_store_[n], session_id, sessions)
  /\ data_store_' = [data_store_ EXCEPT ![n] = [op |-> kLock, value |-> session_id]]
  /\ AppendClientEntry(n, kLock, session_id)
  /\ IF SingleNodeMode /\ length_[n] > commit_index_[n]
       THEN /\ commit_index_' = [commit_index_ EXCEPT ![n] = length_[n]]
            /\ committed' = committed \cup
                 {<<i, slots'[n][i + 1], current_term_[n]>> : i \in 0..length_[n]}
       ELSE UNCHANGED <<commit_index_, committed>>
  /\ UNCHANGED <<members_, budget, dbs_, session_checker_, server_start_timestamp_, event_trigger_, watch_done, applied, readVars, sessionVars, current_leader_, replies, current_term_, status_, voted_for_, vote_grant_, heartbeat_count_,
                 in_safe_mode_, last_applied_index_, leaderVars,
                 vote_file, follower_worker, committer, net, restarts,
                 elections, heartbeats, rpc_errors, elected, granted, refused>>

\* Lock, refused because the lock is held (lines 1350-1355)
LockRefused(n, session_id) ==
  /\ status_[n] = kLeader
  /\ ~in_safe_mode_[n]
  /\ ~LockIsAvailable(data_store_[n], session_id, sessions_[n])
  /\ Cardinality(replies) < MaxReply
  /\ replies' = replies \cup {[rpc |-> "Lock", node |-> n, success |-> FALSE,
                                 leader_id |-> "", session_id |-> session_id,
                                 store |-> data_store_[n], sessions |-> sessions_[n]]}
  /\ UNCHANGED <<members_, budget, dbs_, session_checker_, server_start_timestamp_, event_trigger_, watch_done, applied, readVars, sessionVars, current_leader_, nodeVars, leaderVars,
                 logVars, vote_file, data_store_, follower_worker, committer, net,
                 histVars>>

\* KeepAlive of a client on the leader (lines 1465-1516): the session is
\* live again and its set of locked keys is replaced by the list of the
\* request, which names the key (locks) or does not; the copies forwarded to
\* the other members are lost
KeepAlive(n, session_id, locks) ==
  /\ MayWrite
  /\ status_[n] = kLeader
  /\ client_ops' = client_ops + 1
  /\ sessions_' = [sessions_ EXCEPT ![n] = @ \cup {session_id}]
  /\ session_locks_' = [session_locks_ EXCEPT ![n] =
       IF locks THEN @ \cup {session_id} ELSE @ \ {session_id}]
  /\ UNCHANGED <<members_, budget, dbs_, session_checker_, server_start_timestamp_, event_trigger_, watch_done, applied, readVars, watch_events_, current_leader_, replies, nodeVars,
                 leaderVars, logVars, vote_file, data_store_, follower_worker,
                 committer, net, restarts, elections, heartbeats, rpc_errors, elected,
                 granted, refused, committed>>

\* the key of the store, as the responses of Watch name it
Key == "key"

\* the values a Watch request may carry as old_value
OldValue == PutValue \cup Session \cup {""}

\* a WatchResponse as its handler left it when the closure ran: the fields
\* TriggerEvent and TriggerEventBySessionAndKey set (lines 1709-1714 and
\* 1760-1765); index is the index of the entry whose task fired the event,
\* -1 when Watch fired it itself
WatchFired(n, session_id, value, deleted, index) ==
  [node |-> n, session_id |-> session_id, watch_key |-> Key, key |-> Key,
   value |-> value, deleted |-> deleted, success |-> TRUE, canceled |-> FALSE,
   leader_id |-> "", index |-> index]

\* a WatchResponse none of whose fields was set
WatchUnset(n, session_id) ==
  [node |-> n, session_id |-> session_id, watch_key |-> "", key |-> "",
   value |-> "", deleted |-> FALSE, success |-> FALSE, canceled |-> FALSE,
   leader_id |-> "", index |-> -1]

\* RemoveEventBySessionAndKey (lines 1726-1744): the response of the event
\* the session has on the key, canceled
WatchCanceled(n, session_id) == [WatchUnset(n, session_id) EXCEPT !.canceled = TRUE]

\* RemoveEventBySession (lines 1773-1785): the events of the sessions are
\* erased, their responses as they are
WatchErased(n, session_id) == WatchUnset(n, session_id)

\* the kUnLock entries RemoveExpiredSessions appends for the expired
\* sessions, in the order q of their last reports (lines 1583-1612)
UnlockEntries(n, q) ==
  LET held == SelectSeq(q, LAMBDA s : s \in session_locks_[n])
      cur_term == IF session_checker_[n].pc = "run"
                    THEN session_checker_[n].cur_term ELSE current_term_[n]
  IN [i \in 1..Len(held) |-> LogEntry(cur_term, kUnLock, held[i])]

\* the orders of the sessions in expired
Orders(expired) ==
  {q \in [1..Cardinality(expired) -> expired] :
     \A i, j \in 1..Cardinality(expired) : i # j => q[i] # q[j]}

\* RemoveExpiredSessions, its head (lines 1543-1553): cur_term and cur_status
\* are read under mu_, which is released before the sessions are looked at
RemoveExpiredSessionsHead(n) ==
  /\ session_checker_[n].pc = "wait"
  /\ sessions_[n] # {}
  /\ session_checker_' = [session_checker_ EXCEPT ![n] =
       [pc |-> "run", cur_term |-> current_term_[n], cur_status |-> status_[n]]]
  /\ UNCHANGED <<members_, budget, dbs_, server_start_timestamp_, event_trigger_, watch_done, applied, readVars, sessionVars, current_leader_, replies, nodeVars, leaderVars, logVars, vote_file, data_store_,
                 follower_worker, committer, net, histVars>>

\* RemoveExpiredSessions: a cycle of the reaper that finds the sessions
\* expired, in the order q, past their timeout (lines 1543-1632); the cycle
\* from its start when no other thread takes a step after its head, else the
\* cycle after its head (lines 1555-1632) with the cur_term and cur_status
\* the head has read
RemoveExpiredSessions(n, q) ==
  LET expired == {q[i] : i \in 1..Len(q)}
      cur_status == IF session_checker_[n].pc = "run"
                      THEN session_checker_[n].cur_status ELSE status_[n]
      es == IF cur_status = kLeader THEN UnlockEntries(n, q) ELSE <<>>
  IN /\ expired # {} /\ expired \subseteq sessions_[n]
     /\ session_checker_' = [session_checker_ EXCEPT ![n] = NoCycle]
     /\ sessions_' = [sessions_ EXCEPT ![n] = @ \ expired]
     /\ watch_events_' = [watch_events_ EXCEPT ![n] = @ \ expired]
     /\ watch_done' = watch_done \cup
          {WatchErased(n, s) : s \in watch_events_[n] \cap expired}
     /\ session_locks_' = [session_locks_ EXCEPT ![n] = @ \ expired]
     /\ slots' = [slots EXCEPT ![n] = AppendedSlots(n, es)]
     /\ length_' = [length_ EXCEPT ![n] = @ + Len(es)]
     /\ last_log_term_' = [last_log_term_ EXCEPT ![n] = AppendedLastTerm(n, es)]
     /\ IF cur_status = kLeader /\ SingleNodeMode
             /\ length_[n] + Len(es) - 1 > commit_index_[n]
          THEN /\ commit_index_' = [commit_index_ EXCEPT ![n] = length_[n] + Len(es) - 1]
               /\ committed' = committed \cup
                    {<<i, slots'[n][i + 1], current_term_[n]>> :
                       i \in 0..(length_[n] + Len(es) - 1)}
          ELSE UNCHANGED <<commit_index_, committed>>
     /\ UNCHANGED <<members_, budget, dbs_, server_start_timestamp_, event_trigger_, applied, readVars, current_leader_, replies,
                    current_term_, status_, voted_for_, vote_grant_, heartbeat_count_,
                    in_safe_mode_, last_applied_index_, client_ack_, leaderVars,
                    vote_file, data_store_, follower_worker, committer, net, restarts,
                    client_ops, elections, heartbeats, rpc_errors, elected, granted,
                    refused>>

\* the client requests that only a leader serves
Rpc == {"Put", "Delete", "Lock", "UnLock", "Login", "Logout", "Register", "Get", "Scan",
        "Watch"}

\* a mistaken answer: a candidate names the leader it followed
LeaderLastHeard(n) == current_leader_[n]

\* the leader_id of the rejection by a member that is not leader
\* (Put, lines 1182-1193, and the same lines of the other handlers)
LeaderId(n) == IF status_[n] = kFollower THEN current_leader_[n] ELSE ""

\* the head of every handler of Rpc on a follower or a candidate: the
\* request is answered and the handler returns
RejectNotLeader(n, rpc) ==
  /\ status_[n] \in {kFollower, kCandidate}
  /\ Cardinality(replies) < MaxReply
  /\ replies' = replies \cup {[rpc |-> rpc, node |-> n, success |-> FALSE,
                                 status |-> status_[n], leader_id |-> LeaderId(n)]}
  /\ UNCHANGED <<members_, budget, dbs_, session_checker_, server_start_timestamp_, event_trigger_, watch_done, applied, readVars, sessionVars, current_leader_, nodeVars, leaderVars,
                 logVars, vote_file, data_store_, follower_worker, committer, net,
                 histVars>>

\* Watch, lines 1836-1855: the events the handler fires for the event it
\* has just registered, none while the server has started within
\* FLAGS_session_expire_timeout
FiredByWatch(n, session_id, old_value, key_exist) ==
  LET store == data_store_[n]
      real_value == IF store = NotFound THEN "" ELSE store.value
  IN IF server_start_timestamp_[n] THEN {}
     ELSE IF real_value # old_value \/ (store # NotFound) # key_exist
       THEN {WatchFired(n, session_id, real_value, store = NotFound, -1)}
     ELSE IF store.op = kLock /\ real_value \notin sessions_[n]
       THEN {WatchFired(n, session_id, "", TRUE, -1)}
       ELSE {}

\* Watch on a leader (lines 1812-1856): an event the session has on the key
\* is canceled, the new event is registered, and it is fired at once, and
\* with that removed, when the handler finds the key changed
Watch(n, session_id, old_value, key_exist) ==
  LET fired == FiredByWatch(n, session_id, old_value, key_exist)
  IN /\ status_[n] = kLeader
     /\ watch_events_' = [watch_events_ EXCEPT ![n] =
          IF fired # {} THEN @ \ {session_id} ELSE @ \cup {session_id}]
     /\ watch_done' = watch_done \cup fired \cup
          (IF session_id \in watch_events_[n] THEN {WatchCanceled(n, session_id)}
           ELSE {})
     /\ UNCHANGED <<members_, budget, dbs_, session_checker_, server_start_timestamp_, event_trigger_, applied, readVars, sessions_, session_locks_, current_leader_, replies,
                    nodeVars, leaderVars, logVars, vote_file, data_store_, follower_worker,
                    committer, net, histVars>>

\* FLAGS_session_expire_timeout has passed since the process of n started
SessionExpireTimeoutPasses(n) ==
  /\ server_start_timestamp_[n]
  /\ server_start_timestamp_' = [server_start_timestamp_ EXCEPT ![n] = FALSE]
  /\ UNCHANGED <<members_, budget, dbs_, session_checker_, event_trigger_, watch_done, applied, readVars, sessionVars, current_leader_, replies,
                 nodeVars, leaderVars, logVars, vote_file, data_store_, follower_worker,
                 committer, net, histVars>>

\* a task of event_trigger_ runs TriggerEventWithParent (lines 1682-1724; the
\* key has no parent key): the events on the key are fired and erased
TriggerEventWithParent(n, task) ==
  /\ task \in event_trigger_[n]
  /\ event_trigger_' = [event_trigger_ EXCEPT ![n] = @ \ {task}]
  /\ watch_done' = watch_done \cup
       {WatchFired(n, s, task.value, task.deleted, task.index) : s \in watch_events_[n]}
  /\ watch_events_' = [watch_events_ EXCEPT ![n] = {}]
  /\ UNCHANGED <<members_, budget, dbs_, session_checker_, server_start_timestamp_, applied, readVars, sessions_, session_locks_, current_leader_, replies,
                 nodeVars, leaderVars, logVars, vote_file, data_store_, follower_worker,
                 committer, net, histVars>>

\* ------------------------------------------------------------------------
\* Get (lines 1010-1117) and HeartbeatForReadCallback (lines 443-524)
\* ------------------------------------------------------------------------
Gets == {r \in replies : r.rpc = "Get"}

\* data_store_->Get of the key
StoreGet(n) == data_store_[n]

\* the response of a Get that reads the store (lines 1085-1113 and 483-511):
\* success, and a hit unless the key is absent or is the lock of a session
\* that sessions_ does not hold (IsExpiredSession); call numbers the
\* responses to Get in their order
GetResponse(n) ==
  LET store == StoreGet(n)
      hit == store # NotFound /\ ~(store.op = kLock /\ store.value \notin sessions_[n])
  IN [rpc |-> "Get", node |-> n, success |-> TRUE, hit |-> hit,
      value |-> IF hit THEN store.value ELSE "", leader_id |-> "",
      call |-> Cardinality(Gets)]

\* a refusal that answers with the value read from the store
GetRefusalRead(n) == GetResponse(n)

\* the response of a Get that is refused (success = false, hit = false)
GetRefusal(n) ==
  [rpc |-> "Get", node |-> n, success |-> FALSE, hit |-> FALSE, value |-> "",
   leader_id |-> "", call |-> Cardinality(Gets)]

\* a heartbeat for read of n or its answer is under way
ReadUnderWay(n) ==
  \E m \in net : \/ m.type = "AppendEntriesRequest" /\ m.from = n /\ m.rpc = "read"
                 \/ m.type = "AppendEntriesResponse" /\ m.to = n /\ m.rpc = "read"

\* Get on a leader out of safe mode (lines 1054-1116): with more than one
\* member and no recent heartbeat for read the members are asked first and
\* the ClientReadAck counts the leader itself; otherwise the store is read
\* and the request answered at once
Get(n) ==
  /\ status_[n] = kLeader
  /\ ~in_safe_mode_[n]
  /\ ~ReadUnderWay(n)
  /\ Cardinality(Gets) < MaxRead
  /\ IF Cardinality(members_) > 1 /\ ~heartbeat_read_timestamp_[n]
       THEN /\ read_ack_' = [read_ack_ EXCEPT ![n] =
                 [succ_count |-> 1, err_count |-> 0, triggered |-> FALSE,
                  calls |-> Others(n)]]
            /\ net' \in Sent({AppendEntriesRequest(n, f, current_term_[n], 0, 0,
                                commit_index_[n], <<>>, "read") : f \in Others(n)})
            /\ UNCHANGED replies
       ELSE /\ replies' = replies \cup {GetResponse(n)}
            /\ UNCHANGED <<read_ack_, net>>
  /\ UNCHANGED <<members_, budget, dbs_, session_checker_, server_start_timestamp_, event_trigger_, watch_done, applied, heartbeat_read_timestamp_, sessionVars, current_leader_,
                 nodeVars, leaderVars, logVars, vote_file, data_store_, follower_worker,
                 committer, histVars>>

\* HeartbeatForReadCallback with failed = false
HeartbeatForReadCallback(n, m) ==
  /\ m \in net /\ m.type = "AppendEntriesResponse" /\ m.rpc = "read" /\ m.to = n
  /\ net' = net \ {m}
  /\ IF read_ack_[n].triggered
       THEN /\ read_ack_' = [read_ack_ EXCEPT ![n].calls = @ \ {m.from}]
            /\ UNCHANGED <<replies, status_, current_term_, heartbeat_read_timestamp_>>
     ELSE IF status_[n] # kLeader
       THEN /\ replies' = replies \cup {GetRefusal(n)}
            /\ read_ack_' = [read_ack_ EXCEPT ![n].triggered = TRUE,
                                              ![n].calls = @ \ {m.from}]
            /\ UNCHANGED <<status_, current_term_, heartbeat_read_timestamp_>>
     ELSE IF m.current_term > current_term_[n]
       THEN /\ status_' = [status_ EXCEPT ![n] = kFollower]
            /\ current_term_' = [current_term_ EXCEPT ![n] = m.current_term]
            /\ replies' = replies \cup {GetRefusal(n)}
            /\ read_ack_' = [read_ack_ EXCEPT ![n].triggered = TRUE,
                                              ![n].calls = @ \ {m.from}]
            /\ UNCHANGED heartbeat_read_timestamp_
     ELSE IF read_ack_[n].succ_count + 1 > Cardinality(members_) \div 2
       THEN /\ replies' = replies \cup {GetResponse(n)}
            /\ read_ack_' = [read_ack_ EXCEPT ![n].succ_count = @ + 1,
                                              ![n].triggered = TRUE,
                                              ![n].calls = @ \ {m.from}]
            /\ heartbeat_read_timestamp_' =
                 [heartbeat_read_timestamp_ EXCEPT ![n] = TRUE]
            /\ UNCHANGED <<status_, current_term_>>
       ELSE /\ read_ack_' = [read_ack_ EXCEPT ![n].succ_count = @ + 1,
                                              ![n].calls = @ \ {m.from}]
            /\ UNCHANGED <<replies, status_, current_term_, heartbeat_read_timestamp_>>
  /\ UNCHANGED <<members_, budget, dbs_, session_checker_, server_start_timestamp_, event_trigger_, watch_done, applied, sessionVars, current_leader_, voted_for_, vote_grant_,
                 heartbeat_count_, in_safe_mode_, commit_index_, last_applied_index_,
                 client_ack_, leaderVars, logVars, vote_file, data_store_,
                 follower_worker, committer, histVars>>

\* HeartbeatForReadCallback with failed = true: the call of the Get under way
\* to f failed, its request or answer reaches nobody (lines 449-475, 517-523)
HeartbeatForReadFailed(n, f) ==
  /\ f \in read_ack_[n].calls
  /\ MayFail
  /\ rpc_errors' = rpc_errors + 1
  /\ net' = {m \in net : ~(/\ m.type \in {"AppendEntriesRequest", "AppendEntriesResponse"}
                            /\ m.rpc = "read"
                            /\ {m.from, m.to} = {n, f})}
  /\ IF read_ack_[n].triggered
       THEN /\ read_ack_' = [read_ack_ EXCEPT ![n].calls = @ \ {f}]
            /\ UNCHANGED replies
     ELSE IF status_[n] # kLeader
       THEN /\ replies' = replies \cup {GetRefusal(n)}
            /\ read_ack_' = [read_ack_ EXCEPT ![n].triggered = TRUE,
                                              ![n].calls = @ \ {f}]
     ELSE IF read_ack_[n].err_count + 1 > Cardinality(members_) \div 2
       THEN /\ replies' = replies \cup {GetRefusal(n)}
            /\ read_ack_' = [read_ack_ EXCEPT ![n].err_count = @ + 1,
                                              ![n].triggered = TRUE,
                                              ![n].calls = @ \ {f}]
       ELSE /\ read_ack_' = [read_ack_ EXCEPT ![n].err_count = @ + 1,
                                              ![n].calls = @ \ {f}]
            /\ UNCHANGED replies
  /\ UNCHANGED <<members_, budget, dbs_, session_checker_, server_start_timestamp_, event_trigger_, watch_done, applied, heartbeat_read_timestamp_, sessionVars, current_leader_,
                 nodeVars, leaderVars, logVars, vote_file, data_store_, follower_worker,
                 committer, restarts, client_ops, elections, heartbeats, elected,
                 granted, refused, committed>>

\* 1000 * FLAGS_elect_timeout_min microseconds have passed since the last
\* heartbeat for read that a majority answered
ElectTimeoutMinPasses(n) ==
  /\ heartbeat_read_timestamp_[n]
  /\ heartbeat_read_timestamp_' = [heartbeat_read_timestamp_ EXCEPT ![n] = FALSE]
  /\ UNCHANGED <<members_, budget, dbs_, session_checker_, server_start_timestamp_, event_trigger_, watch_done, applied, read_ack_, sessionVars, current_leader_, replies,
                 nodeVars, leaderVars, logVars, vote_file, data_store_, follower_worker,
                 committer, net, histVars>>

\* ------------------------------------------------------------------------
\* Scan (lines 1359-1462)
\* ------------------------------------------------------------------------
\* CommitIndexObserv applied a Put or a Lock of another key: the key holds
\* the tagged value and tag_last_applied_index the index (lines 248-290, 398-404)
StorePut(key, op, value) ==
  /\ key # tag_last_applied_index
  /\ dbs_[key] # [op |-> op, value |-> value]
  /\ dbs_' = [dbs_ EXCEPT ![key] = [op |-> op, value |-> value],
                          ![tag_last_applied_index] = [op |-> kPut, value |-> "index"]]
  /\ UNCHANGED <<members_, budget, session_checker_, server_start_timestamp_, event_trigger_, watch_done, applied, readVars, sessionVars, current_leader_, replies, nodeVars, leaderVars, logVars, vote_file, data_store_,
                 follower_worker, committer, net, histVars>>

\* the loop of Scan from key on (lines 1427-1455): the items added and
\* has_more when the iterator has come to its end, to end_key or to a break
RECURSIVE ScanLoop(_, _, _, _, _)
ScanLoop(n, key, end_key, size_limit, items) ==
  IF ~(key \in ScanKey /\ (key < end_key \/ end_key = NoKey))
    THEN [items |-> items, has_more |-> FALSE]
  ELSE IF dbs_[key] = NotFound
    THEN ScanLoop(n, key + 1, end_key, size_limit, items)
  ELSE IF Len(items) > size_limit
    THEN [items |-> items, has_more |-> TRUE]
  ELSE IF key = tag_last_applied_index
    THEN ScanLoop(n, key + 1, end_key, size_limit, items)
  ELSE IF dbs_[key].op = kLock /\ dbs_[key].value \notin sessions_[n]
    THEN ScanLoop(n, key + 1, end_key, size_limit, items)
    ELSE ScanLoop(n, key + 1, end_key, size_limit,
                  Append(items, [key |-> key, value |-> dbs_[key].value]))

\* Scan on a leader out of safe mode, FLAGS_session_expire_timeout after its
\* start (lines 1369-1462): the iterator seeks start_key; sMaxPBSize is
\* never reached
Scan(n, start_key, end_key, size_limit) ==
  /\ status_[n] = kLeader
  /\ ~in_safe_mode_[n]
  /\ ~server_start_timestamp_[n]
  /\ Cardinality({r \in replies : r.rpc = "Scan"}) < MaxScan
  /\ replies' = replies \cup
       {[rpc |-> "Scan", node |-> n, success |-> TRUE, leader_id |-> "",
         start_key |-> start_key, end_key |-> end_key, size_limit |-> size_limit,
         items |-> ScanLoop(n, Max(start_key, 0), end_key, size_limit, <<>>).items,
         has_more |-> ScanLoop(n, Max(start_key, 0), end_key, size_limit, <<>>).has_more]}
  /\ UNCHANGED <<members_, budget, dbs_, session_checker_, server_start_timestamp_, event_trigger_, watch_done, applied, readVars, sessionVars, current_leader_, nodeVars, leaderVars, logVars, vote_file, data_store_,
                 follower_worker, committer, net, histVars>>

\* ------------------------------------------------------------------------
\* The process of a member stops and starts again
\* ------------------------------------------------------------------------
\* a restart that forgets the vote record
VoteRecordForgotten(n) == [t \in Terms |-> NoServer]

\* Meta::ReadVotedFor: the last record of vote.data, if any, is the map
ReadVotedFor(n) ==
  [t \in Terms |-> IF vote_file[n] # <<>> /\ vote_file[n][1] = t
                     THEN vote_file[n][2] ELSE NoServer]

\* ~InsNodeImpl, then InsNodeImpl::InsNodeImpl, Init, InitStorage and the
\* constructors of Meta and BinLogger
Restart(n) ==
  /\ MayRestart
  /\ restarts' = [restarts EXCEPT ![n] = @ + 1]
  /\ status_' = [status_ EXCEPT ![n] = kFollower]
  /\ voted_for_' = [voted_for_ EXCEPT ![n] = ReadVotedFor(n)]
  /\ vote_grant_' = [vote_grant_ EXCEPT ![n] = [t \in Terms |-> 0]]
  /\ heartbeat_count_' = [heartbeat_count_ EXCEPT ![n] = 0]
  /\ in_safe_mode_' = [in_safe_mode_ EXCEPT ![n] = TRUE]
  /\ commit_index_' = [commit_index_ EXCEPT ![n] = -1]
  /\ client_ack_' = [client_ack_ EXCEPT ![n] = {}]
  /\ current_leader_' = [current_leader_ EXCEPT ![n] = ""]
  /\ sessions_' = [sessions_ EXCEPT ![n] = {}]
  /\ session_locks_' = [session_locks_ EXCEPT ![n] = {}]
  /\ watch_events_' = [watch_events_ EXCEPT ![n] = {}]
  /\ event_trigger_' = [event_trigger_ EXCEPT ![n] = {}]
  /\ server_start_timestamp_' = [server_start_timestamp_ EXCEPT ![n] = TRUE]
  /\ next_index_' = [next_index_ EXCEPT ![n] = [f \in Server |-> 0]]
  /\ match_index_' = [match_index_ EXCEPT ![n] = [f \in Server |-> 0]]
  /\ replicating_' = [replicating_ EXCEPT ![n] = {}]
  /\ replicator' = [replicator EXCEPT ![n] =
       [f \in Server |-> [pc |-> "none", index |-> 0, batch_span |-> 0,
                          max_term |-> -1, latest_replicating_ok |-> TRUE]]]
  /\ last_log_term_' = [last_log_term_ EXCEPT ![n] =
       IF length_[n] > 0 THEN ReadSlot(n, length_[n] - 1).term ELSE -1]
  /\ follower_worker' = [f \in Server |->
       IF f = n THEN {}
       ELSE {IF j.from = n /\ j.rpc = "sync" THEN [j EXCEPT !.rpc = "orphan"] ELSE j :
             j \in follower_worker[f]}]
  /\ committer' = [committer EXCEPT ![n] =
       [pc |-> "wait", to_idx |-> -1, nop_committed |-> FALSE]]
  /\ net' = {IF m.type = "AppendEntriesRequest" /\ m.rpc = "sync" /\ m.from = n
               THEN [m EXCEPT !.rpc = "orphan"] ELSE m :
             m \in {x \in net : ~(x.to = n /\ x.type \in {"VoteResponse",
                                                          "AppendEntriesResponse"})}}
  /\ heartbeat_read_timestamp_' = [heartbeat_read_timestamp_ EXCEPT ![n] = FALSE]
  /\ read_ack_' = [read_ack_ EXCEPT ![n] = NoRead]
  /\ session_checker_' = [session_checker_ EXCEPT ![n] = NoCycle]
  /\ UNCHANGED <<members_, budget, dbs_, watch_done, applied, replies, current_term_, last_applied_index_, slots,
                 length_, vote_file,
                 data_store_, client_ops, elections, heartbeats, rpc_errors, elected,
                 granted, refused, committed>>

\* ------------------------------------------------------------------------
\* The specification
\* ------------------------------------------------------------------------
\* the state after the construction of every member of the cluster
Start(cluster) ==
  /\ members_ = cluster
  /\ current_term_ = [n \in Server |-> 0]
  /\ status_ = [n \in Server |-> kFollower]
  /\ voted_for_ = [n \in Server |-> [t \in Terms |-> NoServer]]
  /\ vote_grant_ = [n \in Server |-> [t \in Terms |-> 0]]
  /\ heartbeat_count_ = [n \in Server |-> 0]
  /\ in_safe_mode_ = [n \in Server |-> TRUE]
  /\ commit_index_ = [n \in Server |-> -1]
  /\ last_applied_index_ = [n \in Server |-> -1]
  /\ client_ack_ = [n \in Server |-> {}]
  /\ next_index_ = [n \in Server |-> [f \in Server |-> 0]]
  /\ match_index_ = [n \in Server |-> [f \in Server |-> 0]]
  /\ replicating_ = [n \in Server |-> {}]
  /\ vote_file = [n \in Server |-> <<>>]
  /\ slots = [n \in Server |-> <<>>]
  /\ length_ = [n \in Server |-> 0]
  /\ last_log_term_ = [n \in Server |-> -1]
  /\ data_store_ = [n \in Server |-> NotFound]
  /\ replicator = [n \in Server |-> [f \in Server |->
       [pc |-> "none", index |-> 0, batch_span |-> 0, max_term |-> -1,
        latest_replicating_ok |-> TRUE]]]
  /\ follower_worker = [n \in Server |-> {}]
  /\ committer = [n \in Server |-> [pc |-> "wait", to_idx |-> -1,
                                    nop_committed |-> FALSE]]
  /\ net = {}
  /\ restarts = [n \in Server |-> 0]
  /\ client_ops = 0
  /\ elections = 0
  /\ heartbeats = 0
  /\ rpc_errors = 0
  /\ elected = {}
  /\ granted = {}
  /\ refused = {}
  /\ committed = {}
  /\ current_leader_ = [n \in Server |-> ""]
  /\ sessions_ = [n \in Server |-> {}]
  /\ session_locks_ = [n \in Server |-> {}]
  /\ watch_events_ = [n \in Server |-> {}]
  /\ event_trigger_ = [n \in Server |-> {}]
  /\ server_start_timestamp_ = [n \in Server |-> TRUE]
  /\ watch_done = {}
  /\ replies = {}
  /\ applied = {}
  /\ heartbeat_read_timestamp_ = [n \in Server |-> FALSE]
  /\ read_ack_ = [n \in Server |-> NoRead]
  /\ session_checker_ = [n \in Server |-> NoCycle]
  /\ dbs_ = [k \in ScanKey |-> NotFound]

\* a cluster of three
Init ==
  /\ Start({"A", "B", "C"})
  /\ budget = Budget(MaxEvent, MaxElection, MaxHeartbeat, MaxRpcError, MaxRestart,
                     MaxClientOps)

\* a behaviour has MaxElection elections or it has client writes, failed
\* calls and restarts
Faults == rpc_errors + Restarts + client_ops
ElectionLeft == Faults > 0 => elections < MaxFaultElection
FaultLeft == elections <= MaxFaultElection

Next ==
  \/ \E n \in members_ : ElectionLeft /\ TryToBeLeader(n)
  \/ \E n \in members_ : \E m \in net : Vote(n, m)
  \/ \E n \in members_ : \E m \in net : VoteCallback(n, m)
  \/ \E n \in members_ : \E f \in Others(n) : ReplicateLogSend(n, f)
  \/ \E n \in members_ : \E f \in Others(n) : ReplicateLogExit(n, f)
  \/ \E n \in members_ : \E f \in Others(n) : \E m \in net : ReplicateLogResponse(n, f, m)
  \/ \E n \in members_ : \E f \in Others(n) : FaultLeft /\ ReplicateLogRpcError(n, f)
  \/ \E n \in members_ : BroadCastHeartbeat(n)
  \/ \E n \in members_ : \E m \in net : HeartbeatCallback(n, m)
  \/ \E n \in members_ : \E m \in net : DoAppendEntries(n, m)
  \/ \E n \in members_ : \E j \in follower_worker[n] : DoAppendEntriesAppend(n, j)
  \/ \E n \in members_ : CommitIndexObservWake(n)
  \/ \E n \in members_ : CommitIndexObservApply(n)
  \/ \E n \in members_ : \E v \in PutValue : FaultLeft /\ Put(n, v)
  \/ \E n \in members_ : \E s \in Session : \E live \in SUBSET Session :
        FaultLeft /\ Lock(n, s, live)
  \/ \E n \in members_ : FaultLeft /\ Restart(n)
  \/ \E m \in net : Lose(m)

Spec == Init /\ [][Next]_vars

\* the last of the followers of n
LastOther(n) == CHOOSE f \in Others(n) : \A g \in Others(n) :
                  \E i, j \in 1..Len(Order) : Order[i] = g /\ Order[j] = f /\ i <= j

\* clusters of two to five members: elections, restarts, and the replication
\* from a leader to the last of its followers (the replicator threads of
\* the other followers do not get to run), without client writes,
\* heartbeats, failed calls and apply
Prefix(k) == {Order[i] : i \in 1..k}
InitCluster ==
  /\ \E k \in 2..Len(Order) : Start(Prefix(k))
  /\ budget = Budget(MaxEvent, MaxElection, MaxHeartbeat, MaxRpcError, MaxRestart,
                     MaxClientOps)

NextCluster ==
  \/ \E n \in members_ : TryToBeLeader(n)
  \/ \E n \in members_ : \E m \in net : Vote(n, m)
  \/ \E n \in members_ : \E m \in net : VoteCallback(n, m)
  \/ \E n \in members_ : ReplicateLogSend(n, LastOther(n))
  \/ \E n \in members_ : \E m \in net : ReplicateLogResponse(n, LastOther(n), m)
  \/ \E n \in members_ : \E m \in net : DoAppendEntries(n, m)
  \/ \E n \in members_ : \E j \in follower_worker[n] : DoAppendEntriesAppend(n, j)
  \/ \E n \in members_ : Restart(n)
  \/ \E m \in net : Lose(m)

SpecCluster == InitCluster /\ [][NextCluster]_vars

\* a cluster of three with client writes and a heartbeat, and an apply worker
\* that may fall behind; a leader replicates to the last of its followers:
\* no failed calls, no restarts
InitBusy ==
  /\ Start({"A", "B", "C"})
  /\ budget = Budget(MaxBusyEvent, MaxElection, MaxHeartbeat, 0, 0, MaxBusyOps)

NextBusy ==
  \/ \E n \in members_ : TryToBeLeader(n)
  \/ \E n \in members_ : \E m \in net : Vote(n, m)
  \/ \E n \in members_ : \E m \in net : VoteCallback(n, m)
  \/ \E n \in members_ : ReplicateLogSend(n, LastOther(n))
  \/ \E n \in members_ : \E m \in net : ReplicateLogResponse(n, LastOther(n), m)
  \/ \E n \in members_ : BroadCastHeartbeat(n)
  \/ \E n \in members_ : \E m \in net : DoAppendEntries(n, m)
  \/ \E n \in members_ : \E j \in follower_worker[n] : DoAppendEntriesAppend(n, j)
  \/ \E n \in members_ : CommitIndexObservWake(n)
  \/ \E n \in members_ : CommitIndexObservApply(n)
  \/ \E n \in members_ : \E v \in PutValue : Put(n, v)

SpecBusy == InitBusy /\ [][NextBusy]_vars

\* the first of the followers of n
FirstOther(n) == CHOOSE f \in Others(n) : \A g \in Others(n) :
                   \E i, j \in 1..Len(Order) : Order[i] = f /\ Order[j] = g /\ i <= j

\* a cluster of three where leadership changes while client writes wait for
\* their acks; a leader replicates to the first of its followers: no
\* heartbeats, no failed calls, no restarts
InitAck ==
  /\ Start({"A", "B", "C"})
  /\ budget = Budget(MaxAckEvent, MaxTerm, 0, 0, 0, MaxAckOps)

NextAck ==
  \/ \E n \in members_ : TryToBeLeader(n)
  \/ \E n \in members_ : \E m \in net : Vote(n, m)
  \/ \E n \in members_ : \E m \in net : VoteCallback(n, m)
  \/ \E n \in members_ : ReplicateLogSend(n, FirstOther(n))
  \/ \E n \in members_ : ReplicateLogExit(n, FirstOther(n))
  \/ \E n \in members_ : \E m \in net : ReplicateLogResponse(n, FirstOther(n), m)
  \/ \E n \in members_ : \E m \in net : DoAppendEntries(n, m)
  \/ \E n \in members_ : \E j \in follower_worker[n] : DoAppendEntriesAppend(n, j)
  \/ \E n \in members_ : CommitIndexObservWake(n)
  \/ \E n \in members_ : CommitIndexObservApply(n)
  \/ \E n \in members_ : \E v \in PutValue : Put(n, v)

SpecAck == InitAck /\ [][NextAck]_vars

\* the member that follows n in Order, the first one after the last
After(n) == {f \in Others(n) : \E i, j \in 1..Len(Order) :
               Order[i] = n /\ Order[j] = f /\ i < j}
NextOther(n) == IF After(n) = {} THEN FirstOther(n)
                ELSE CHOOSE f \in After(n) : \A g \in After(n) :
                       \E i, j \in 1..Len(Order) : Order[i] = f /\ Order[j] = g /\ i <= j

\* a cluster of three that answers Get while leadership changes and a value
\* is put; a leader replicates to the member that follows it: no heartbeats
\* of BroadCastHeartbeat, no failed calls, no restarts
InitRead ==
  /\ Start({"A", "B", "C"})
  /\ budget = Budget(MaxEvent, MaxElection, 0, 0, 0, MaxClientOps)

NextRead ==
  \/ \E n \in members_ : TryToBeLeader(n)
  \/ \E n \in members_ : \E m \in net : Vote(n, m)
  \/ \E n \in members_ : \E m \in net : VoteCallback(n, m)
  \/ \E n \in members_ : ReplicateLogSend(n, NextOther(n))
  \/ \E n \in members_ : \E m \in net : ReplicateLogResponse(n, NextOther(n), m)
  \/ \E n \in members_ : \E m \in net : DoAppendEntries(n, m)
  \/ \E n \in members_ : \E j \in follower_worker[n] : DoAppendEntriesAppend(n, j)
  \/ \E n \in members_ : CommitIndexObservWake(n)
  \/ \E n \in members_ : CommitIndexObservApply(n)
  \/ \E n \in members_ : \E v \in PutValue : Put(n, v)
  \/ \E n \in members_ : Get(n)
  \/ \E n \in members_ : \E m \in net : HeartbeatForReadCallback(n, m)
  \/ \E n \in members_ : ElectTimeoutMinPasses(n)
  \/ \E m \in net : Lose(m)

SpecRead == InitRead /\ [][NextRead]_vars

\* a single node that starts, is restarted and serves client writes and
\* reads; the apply worker gets to run whenever it has work
InitSingle ==
  /\ Start({"A"})
  /\ budget = Budget(MaxSingleEvent, 0, 0, 0, MaxRestart, MaxSingleOps)

NextSingle ==
  \/ \E n \in members_ : TryToBeLeaderSingleNode(n)
  \/ \E n \in members_ : \E v \in PutValue : Put(n, v)
  \/ \E n \in members_ : CommitIndexObservWake(n)
  \/ \E n \in members_ : CommitIndexObservApply(n)
  \/ \E n \in members_ : Get(n)
  \/ \E n \in members_ : Restart(n)

SpecSingle ==
  /\ InitSingle /\ [][NextSingle]_vars
  /\ \A n \in Server : /\ WF_vars(n \in members_ /\ CommitIndexObservWake(n))
                       /\ WF_vars(n \in members_ /\ CommitIndexObservApply(n))

\* the transport has room for one more message
RoomInNet == Cardinality(net) < Capacity

\* a step of the replicator task of n for f: a request is sent when the
\* transport takes it, or the response of the call is handled
ReplicatorStep(n, f) ==
  \/ RoomInNet /\ ReplicateLogSend(n, f)
  \/ \E m \in net : ReplicateLogResponse(n, f, m)

\* a cluster of three with one election, so that the leader it elects stays,
\* and a transport that loses no message of the replication: a replicator
\* and a follower worker send when the transport has room; no heartbeats of
\* BroadCastHeartbeat, no failed calls, no restarts. The replicator tasks,
\* the handlers of the messages that have arrived, the follower workers and
\* the apply workers get to run whenever they have work
HappyCluster == {"A", "B", "C"}

InitHappy ==
  /\ Start(HappyCluster)
  /\ budget = Budget(1 + MaxHappyOps, 1, 0, 0, 0, MaxHappyOps)

NextHappy ==
  \/ \E n \in members_ : TryToBeLeader(n)
  \/ \E n \in members_ : \E m \in net : Vote(n, m)
  \/ \E n \in members_ : \E m \in net : VoteCallback(n, m)
  \/ \E n \in members_ : \E f \in Others(n) : ReplicatorStep(n, f)
  \/ \E n \in members_ : \E m \in net : DoAppendEntries(n, m)
  \/ \E n \in members_ : \E j \in follower_worker[n] :
       RoomInNet /\ DoAppendEntriesAppend(n, j)
  \/ \E n \in members_ : CommitIndexObservWake(n)
  \/ \E n \in members_ : CommitIndexObservApply(n)
  \/ \E n \in members_ : \E v \in PutValue : Put(n, v)
  \/ \E n \in members_ : RoomInNet /\ Get(n)
  \/ \E n \in members_ : \E m \in net : HeartbeatForReadCallback(n, m)
  \/ \E n \in members_ : ElectTimeoutMinPasses(n)

SpecHappy ==
  /\ InitHappy /\ [][NextHappy]_vars
  /\ \A n \in HappyCluster :
       /\ WF_vars(n \in members_ /\ \E m \in net : Vote(n, m))
       /\ WF_vars(n \in members_ /\ \E m \in net : VoteCallback(n, m))
       /\ WF_vars(n \in members_ /\ \E m \in net : DoAppendEntries(n, m))
       /\ WF_vars(n \in members_ /\ \E j \in follower_worker[n] :
                    RoomInNet /\ DoAppendEntriesAppend(n, j))
       /\ WF_vars(n \in members_ /\ \E m \in net : HeartbeatForReadCallback(n, m))
       /\ WF_vars(n \in members_ /\ CommitIndexObservWake(n))
       /\ WF_vars(n \in members_ /\ CommitIndexObservApply(n))
       /\ \A f \in HappyCluster :
            WF_vars(n \in members_ /\ f \in Others(n) /\ ReplicatorStep(n, f))

\* a single node that serves writes, locks and sessions of two clients and
\* the watches of one of them; a Lock is served once FLAGS_session_expire_timeout has passed
\* since the start (lines 1313-1321). The apply worker and the tasks of
\* event_trigger_ get to run whenever they have work
InitWatch ==
  /\ Start({"A"})
  /\ budget = Budget(MaxWatchOps, 0, 0, 0, 0, MaxWatchOps)

NextWatch ==
  \/ \E n \in members_ : TryToBeLeaderSingleNode(n)
  \/ \E n \in members_ : SessionExpireTimeoutPasses(n)
  \/ \E n \in members_ : \E v \in PutValue : Put(n, v)
  \/ \E n \in members_ : \E s \in Client :
       ~server_start_timestamp_[n] /\ Lock(n, s, sessions_[n])
  \/ \E n \in members_ : \E s \in Client : \E locks \in BOOLEAN : KeepAlive(n, s, locks)
  \/ \E n \in members_ : \E e \in SUBSET sessions_[n] : \E q \in Orders(e) :
        RemoveExpiredSessions(n, q)
  \/ \E n \in members_ : \E s \in Session : \E v \in OldValue : \E e \in BOOLEAN :
       Watch(n, s, v, e)
  \/ \E n \in members_ : CommitIndexObservWake(n)
  \/ \E n \in members_ : CommitIndexObservApply(n)
  \/ \E n \in members_ : \E task \in event_trigger_[n] : TriggerEventWithParent(n, task)

SpecWatch ==
  /\ InitWatch /\ [][NextWatch]_vars
  /\ \A n \in Server :
       /\ WF_vars(n \in members_ /\ CommitIndexObservWake(n))
       /\ WF_vars(n \in members_ /\ CommitIndexObservApply(n))
       /\ WF_vars(n \in members_ /\ \E task \in event_trigger_[n] :
                    TriggerEventWithParent(n, task))

\* a cluster of two whose members answer client requests in every status:
\* elections and heartbeats, no replication
InitAdmission ==
  /\ Start({"A", "B"})
  /\ budget = Budget(MaxEvent, MaxElection, MaxHeartbeat, 0, 0, MaxClientOps)

NextAdmission ==
  \/ \E n \in members_ : TryToBeLeader(n)
  \/ \E n \in members_ : \E m \in net : Vote(n, m)
  \/ \E n \in members_ : \E m \in net : VoteCallback(n, m)
  \/ \E n \in members_ : BroadCastHeartbeat(n)
  \/ \E n \in members_ : \E m \in net : HeartbeatCallback(n, m)
  \/ \E n \in members_ : \E m \in net : DoAppendEntries(n, m)
  \/ \E n \in members_ : \E v \in PutValue : Put(n, v)
  \/ \E n \in members_ : \E s \in Session : \E v \in OldValue : \E e \in BOOLEAN :
       Watch(n, s, v, e)
  \/ \E n \in members_ : SessionExpireTimeoutPasses(n)
  \/ \E n \in members_ : \E rpc \in Rpc : RejectNotLeader(n, rpc)

SpecAdmission == InitAdmission /\ [][NextAdmission]_vars

\* a cluster of two whose leader keeps the sessions of two clients that
\* lock the key: one election, no heartbeats, failed calls or restarts
InitSession ==
  /\ Start({"A", "B"})
  /\ budget = Budget(MaxSessionEvent, 1, 0, 0, 0, MaxSessionOps)

NextSession ==
  \/ \E n \in members_ : TryToBeLeader(n)
  \/ \E n \in members_ : \E m \in net : Vote(n, m)
  \/ \E n \in members_ : \E m \in net : VoteCallback(n, m)
  \/ \E n \in members_ : \E f \in Others(n) : ReplicateLogSend(n, f)
  \/ \E n \in members_ : \E f \in Others(n) : \E m \in net : ReplicateLogResponse(n, f, m)
  \/ \E n \in members_ : \E m \in net : DoAppendEntries(n, m)
  \/ \E n \in members_ : \E j \in follower_worker[n] : DoAppendEntriesAppend(n, j)
  \/ \E n \in members_ : CommitIndexObservWake(n)
  \/ \E n \in members_ : CommitIndexObservApply(n)
  \/ \E n \in members_ : \E s \in Client : \E locks \in BOOLEAN : KeepAlive(n, s, locks)
  \/ \E n \in members_ : \E s \in Client : Lock(n, s, sessions_[n])
  \/ \E n \in members_ : \E s \in Client : LockRefused(n, s)
  \/ \E n \in members_ : \E e \in SUBSET sessions_[n] : \E q \in Orders(e) :
        RemoveExpiredSessions(n, q)

SpecSession == InitSession /\ [][NextSession]_vars

\* ------------------------------------------------------------------------
\* Properties
\* ------------------------------------------------------------------------
\* the members that granted candidate n their vote in term t
Grants(n, t) == {v \in members_ : \E g \in granted : g[1] = v /\ g[2] = t /\ g[3] = n}

\* C1: election safety. No two members ever became leader in the same term,
\* a leader is in the term it was elected in, and every member that became
\* leader in a term had the votes of strictly more than half of the cluster
\* (its own included) in that term.
C1_ElectionSafety ==
  /\ \A e1, e2 \in elected : e1[2] = e2[2] => e1[1] = e2[1]
  /\ \A n \in members_ : status_[n] = kLeader => <<n, current_term_[n]>> \in elected
  /\ \A e \in elected : 2 * Cardinality(Grants(e[1], e[2])) > Cardinality(members_)

\* two candidates of the same term in a cluster of four or five, one of
\* them elected
C1_TwoCandidatesOneLeader ==
  /\ Cardinality(members_) >= 4
  /\ \E e \in elected : \E g \in granted :
       g[1] # e[1] /\ g[1] = g[3] /\ g[2] = e[2]

\* C2: vote uniqueness. The votes a member gave in one term, its own
\* candidacy and the votes after a restart included, all went to one
\* candidate.
C2_VoteUniqueness ==
  \A g1, g2 \in granted : g1[1] = g2[1] /\ g1[2] = g2[2] => g1[3] = g2[3]

\* a member voted, restarted, and refused the other candidate of that term
C2_RefusedAfterRestart ==
  \E g \in granted : \E r \in refused :
    /\ g[1] = r[1] /\ g[2] = r[2] /\ g[3] # r[3] /\ g[1] # g[3]
    /\ g[4] = 0 /\ r[4] = 1
    /\ \E c \in granted : c[1] = r[3] /\ c[3] = r[3] /\ c[2] = r[2]
    /\ length_[g[1]] = 0

\* C3: log matching. Two logs that hold entries of the same term at an
\* index are equal up to and including that index.
C3_LogMatching ==
  \A a, b \in members_ : \A i \in 1..Min(length_[a], length_[b]) :
    Log(a)[i].term = Log(b)[i].term => SubSeq(Log(a), 1, i) = SubSeq(Log(b), 1, i)

\* C4: leader completeness. An entry a leader of term T committed is at its
\* index in the log of every leader of a later term.
C4_LeaderCompleteness ==
  \A c \in committed : \A n \in members_ :
    status_[n] = kLeader /\ current_term_[n] > c[3]
      => c[1] < length_[n] /\ ReadSlot(n, c[1]) = c[2]

\* the store that replaying the log of n up to index i leaves
RECURSIVE Replay(_, _)
Replay(n, i) == IF i < 0 THEN NotFound ELSE Applied(Replay(n, i - 1), Log(n)[i + 1])

\* C5: state-machine safety. On every member the key-value store is what
\* replaying its log from index 0 to last_applied leaves of an empty store.
C5_StateMachineSafety ==
  \A n \in members_ :
    /\ last_applied_index_[n] < length_[n]
    /\ data_store_[n] = Replay(n, last_applied_index_[n])

\* C6: commit monotonicity. While the process of a member runs, no step
\* lowers its commit_index or its last_applied.
C6_CommitMonotonicity ==
  [][\A n \in members_ : restarts'[n] = restarts[n] =>
       /\ commit_index_'[n] >= commit_index_[n]
       /\ last_applied_index_'[n] >= last_applied_index_[n]]_vars

\* the members whose log holds the entries of the log of n up to index idx
Holders(n, idx) ==
  {m \in members_ : idx < length_[m] /\ idx < length_[n]
                    /\ SubSeq(Log(m), 1, idx + 1) = SubSeq(Log(n), 1, idx + 1)}

\* C7: leader commit rule. When the answer of a follower makes a leader set
\* commit_index to idx, idx is above the old commit_index, the entry at idx
\* is of the leader's term, and strictly more than half of the members
\* (the leader included) hold the leader's entries up to idx.
C7_LeaderCommitRule ==
  [][\A n \in members_ : \A f \in Others(n) : \A m \in net :
       ReplicateLogResponse(n, f, m) /\ commit_index_'[n] # commit_index_[n] =>
         /\ commit_index_'[n] > commit_index_[n]
         /\ ReadSlot(n, commit_index_'[n]).term = current_term_[n]
         /\ 2 * Cardinality(Holders(n, commit_index_'[n])) > Cardinality(members_)]_vars

\* C8: on every member last_applied is at most commit_index.
C8_AppliedWithinCommitted ==
  \A n \in members_ : last_applied_index_[n] <= commit_index_[n]

\* C9: on every member commit_index is at most the last index of the log.
C9_CommittedWithinLog ==
  \A n \in members_ : commit_index_[n] <= length_[n] - 1

\* member n takes message m off the network and handles it
Receives(n, m) ==
  \/ Vote(n, m)
  \/ VoteCallback(n, m)
  \/ DoAppendEntries(n, m)
  \/ HeartbeatCallback(n, m)
  \/ \E f \in Others(n) : ReplicateLogResponse(n, f, m)

\* the term a message carries
TermOf(m) == IF m.type = "AppendEntriesResponse" THEN m.current_term ELSE m.term

\* C10: a member that handles a request or a response of a term above its
\* own leaves the handler in that term and as a follower.
C10_HigherTermAdopted ==
  [][\A n \in members_ : \A m \in net :
       Receives(n, m) /\ TermOf(m) > current_term_[n] =>
         current_term_'[n] = TermOf(m) /\ status_'[n] = kFollower]_vars


\* C19: after Truncate(i) no slot above i is readable, until an append
\* writes it again: a slot at or beyond length_ is never found by ReadSlot
C19_TruncatedUnreadable ==
  \A n \in members_ : \A i \in 0..Len(slots[n]) : i >= length_[n] => ~SlotOk(n, i)

\* C11: the apply worker applies index last_applied + 1, an index that is not
\* above commit_index, and last_applied grows by one with every entry applied.
C11_AppliedInOrder ==
  [][\A n \in members_ :
       last_applied_index_'[n] # last_applied_index_[n] =>
         /\ last_applied_index_'[n] = last_applied_index_[n] + 1
         /\ last_applied_index_'[n] <= commit_index_[n]
         /\ data_store_'[n] = Applied(data_store_[n], ReadSlot(n, last_applied_index_'[n]))]_vars

\* the <<index, entry>> pairs a leader has committed
CommittedEntries == {<<c[1], c[2]>> : c \in committed}

\* C12: the ack of a write registered at index i is completed with success
\* only in the turn of the apply worker that applies index i, and the entry
\* it applies there has been committed.
C12_AckAfterApplied ==
  \A r \in replies : r.rpc = "ack" /\ r.success =>
    /\ r.at = r.index
    /\ <<r.index, r.applied>> \in CommittedEntries
    /\ last_applied_index_[r.node] >= r.index

\* the ack of a client write has been completed
C12_AckCompleted ==
  \E r \in replies : r.rpc = "ack" /\ r.success /\ r.applied.op = kPut

\* C13: an ack completed with success for index i is the ack of the entry
\* applied at i, also after the node lost leadership, had index i overwritten
\* by another leader and became leader again.
C13_AckOfAppliedEntry ==
  \A r \in replies : r.rpc = "ack" /\ r.success => r.applied = r.requested

\* a Nop of the term of n is among the entries n will have applied by the
\* end of the step
OwnNopApplied(n) ==
  \E i \in 0..last_applied_index_'[n] :
    SlotOk(n, i) /\ ReadSlot(n, i).op = kNop /\ ReadSlot(n, i).term = current_term_[n]

\* C14: in_safe_mode is cleared only on a leader, and only when a Nop of its
\* term has been applied on it; until then Lock is refused.
C14_SafeModeUntilOwnNop ==
  [][\A n \in members_ :
       /\ in_safe_mode_[n] /\ ~in_safe_mode_'[n] =>
            status_[n] = kLeader /\ OwnNopApplied(n)
       /\ in_safe_mode_[n] => \A s \in Session : ~Lock(n, s, sessions_[n])]_vars

\* the rejections given in the step
Rejections == {r \in replies' \ replies : r.rpc \in Rpc /\ ~r.success}

\* C15: a request of Rpc that reaches a follower is rejected with leader_id =
\* current_leader, one that reaches a candidate with leader_id = ""; the
\* binlog, the pending acks and the watch table stay as they are, and no
\* handler admits the request.
C15_LeaderOnlyAdmission ==
  [][\A n \in members_ :
       /\ \A r \in Rejections : r.node = n =>
            /\ status_[n] = kFollower => r.leader_id = current_leader_[n]
            /\ status_[n] = kCandidate => r.leader_id = ""
            /\ UNCHANGED <<logVars, client_ack_, watch_events_>>
       /\ status_[n] \in {kFollower, kCandidate} =>
            /\ \A v \in PutValue : ~Put(n, v)
            /\ \A s \in Session : ~Lock(n, s, sessions_[n])
            /\ \A s \in Session : \A v \in OldValue : \A e \in BOOLEAN :
                 ~Watch(n, s, v, e)]_vars

\* a follower has named its leader in a rejection, and a candidate that
\* followed a leader before has answered with no leader
C15_BothRejections ==
  /\ \E r \in replies : /\ r.rpc \in Rpc /\ r.status = kFollower
                        /\ r.leader_id \in members_
  /\ \E r \in replies : /\ r.rpc \in Rpc /\ r.status = kCandidate /\ r.leader_id = ""
                        /\ current_leader_[r.node] \in members_

\* the grant rule as stated: (a) the key is unset and the session exists,
\* (b) the owner of the lock has expired and the session exists, (c) the
\* session owns the lock
GrantAsStated(store, session_id, sessions) ==
  \/ store = NotFound /\ session_id \in sessions
  \/ store.op = kLock /\ store.value \notin sessions /\ session_id \in sessions
  \/ store.op = kLock /\ store.value = session_id

\* the grant rule with (c) for a session that exists
GrantToLive(store, session_id, sessions) ==
  /\ session_id \in sessions
  /\ \/ store = NotFound
     \/ store.op = kLock /\ store.value \notin sessions
     \/ store.op = kLock /\ store.value = session_id

\* a Lock of session s that a leader out of safe mode handles is granted
\* exactly when grant, the verdict of the rule, says so, and never to
\* another session while the owner is live
LockFollows(n, s, grant) ==
  /\ Lock(n, s, sessions_[n]) => grant
  /\ LockRefused(n, s) => ~grant
  /\ Lock(n, s, sessions_[n]) /\ data_store_[n].op = kLock /\ data_store_[n].value # s =>
       data_store_[n].value \notin sessions_[n]

HoldsLock(n, s) ==
  /\ data_store_[n] = [op |-> kLock, value |-> s]
  /\ \E i \in 0..last_applied_index_[n] :
       SlotOk(n, i) /\ ReadSlot(n, i).op = kLock /\ ReadSlot(n, i).value = s

\* the entries the step appends to the log of n
AppendedBy(n) == {slots'[n][i] : i \in (length_[n] + 1)..length_'[n]}

\* C17: the reaper cycle of a leader that removes session S appends an
\* Unlock entry with value S when S holds the lock of the key.
C17_UnlockOnExpiry ==
  [][\A n \in members_ : \A e \in SUBSET sessions_[n] : \A q \in Orders(e) :
       RemoveExpiredSessions(n, q) /\ status_[n] = kLeader =>
         \A s \in e : HoldsLock(n, s) =>
           \E x \in AppendedBy(n) : x.op = kUnLock /\ x.value = s]_vars

\* the request m, with entries and of a term not below the member's, passes
\* the checks of DoAppendEntries that come before the busy test
PrevMatches(n, m) ==
  /\ m.type = "AppendEntriesRequest" /\ Len(m.entries) > 0
  /\ m.prev_log_index < length_[n]
  /\ m.prev_log_index >= 0 => ReadSlot(n, m.prev_log_index).term = m.prev_log_term

\* the answer the handler of request m gave, if it reaches the caller
BusyAnswer(n, m) ==
  m.rpc = "sync" =>
    \E r \in net' \ net : /\ r.type = "AppendEntriesResponse" /\ r.from = n
                          /\ ~r.success /\ r.is_busy /\ r.log_length = length_[n]

\* the follower's part for request m, the leader's part for response m
FollowerBacksOff(n, m) ==
  DoAppendEntries(n, m) /\ PrevMatches(n, m)
    /\ commit_index_[n] - last_applied_index_[n] > max_commit_pending
  => /\ BusyAnswer(n, m)
     /\ UNCHANGED <<slots, length_, follower_worker>>
LeaderBacksOff(n, f, m) ==
  ReplicateLogResponse(n, f, m) /\ m.is_busy
  => /\ next_index_'[n][f] = next_index_[n][f]
     /\ match_index_'[n][f] = match_index_[n][f]
     /\ status_'[n] = kLeader => /\ replicator'[n][f].pc = "wait"
                                 /\ replicator'[n][f].latest_replicating_ok

PutAcks == {a \in replies : a.rpc = "ack" /\ a.success /\ a.applied.op = kPut
                            /\ a.requested = a.applied}

\* a leader has committed a write to the key at an index above i
LaterWrite(i) == \E c \in committed : c[1] > i /\ c[2].op \in {kPut, kLock, kUnLock}

\* C18: once a Put of v has been acknowledged with success and no later write
\* to the key has been committed, every Get that a node answers with success
\* reports a hit and the value v
C18_ReadAfterWrite ==
  [][\A g \in replies' \ replies :
       g.rpc = "Get" /\ g.success =>
         \A a \in PutAcks : ~LaterWrite(a.index)' =>
           g.hit /\ g.value = a.applied.value]_vars

\* the grant rule for request m at its receiver n
VoteRule(n, m) ==
  /\ m.term >= current_term_[n]
  /\ \/ m.last_log_term > last_log_term_[n]
     \/ m.last_log_term = last_log_term_[n] /\ m.last_log_index >= length_[n] - 1
  /\ voted_for_[n][m.term] \in {NoServer, m.from}

\* request m is answered with vote_granted = true
VoteGranted(m) ==
  net' = (net \ {m}) \cup {VoteResponse(m.to, m.from, m.term, TRUE)}

Appends(m) ==
  \E j \in follower_worker'[m.to] \ follower_worker[m.to] :
    j.from = m.from /\ j.entries = m.entries

\* the answer success = false to request m with the log length l
Refusal(m, l) ==
  AppendEntriesResponse(m.to, m.from, Max(m.term, current_term_[m.to]), FALSE, l,
                        FALSE, m.rpc)

\* C28: the AppendEntries handler appends the entries of a request only if
\* the term of the request is not below its current term and prev_log_index
\* is -1 or the index of an entry of its log with the term prev_log_term; to
\* a request of a lower term it answers success = false with its term and
\* changes nothing; to one with prev_log_index at or beyond its length L it
\* answers success = false with L and leaves the log alone; on different
\* terms at prev_log_index it cuts the log to the last index
\* prev_log_index - 1 and answers success = false with the new length
C28_ConsistencyCheck ==
  [][\A m \in net :
       /\ m.type = "AppendEntriesRequest" /\ m.rpc = "sync" /\ Len(m.entries) > 0
       /\ m \notin net'
       => LET n == m.to
              L == length_[n]
              stale == m.term < current_term_[n]
              beyond == m.prev_log_index >= L
              prev_log_term == IF m.prev_log_index >= 0 /\ ~beyond
                                 THEN Log(n)[m.prev_log_index + 1].term ELSE -1
          IN /\ Appends(m) => /\ ~stale
                              /\ \/ m.prev_log_index = -1
                                 \/ ~beyond /\ prev_log_term = m.prev_log_term
             /\ stale => /\ Refusal(m, L) \in net'
                         /\ UNCHANGED <<nodeVars, logVars, current_leader_,
                                        follower_worker, data_store_, vote_file>>
             /\ ~stale /\ beyond => Refusal(m, L) \in net' /\ UNCHANGED logVars
             /\ ~stale /\ ~beyond /\ prev_log_term # m.prev_log_term =>
                  /\ length_'[n] = m.prev_log_index
                  /\ Refusal(m, m.prev_log_index) \in net'
                  /\ ~Appends(m)]_vars

\* a follower has cut its log on different terms at prev_log_index and its
\* answer is under way
C28_CutAndRefused ==
  \E r \in net : /\ r.type = "AppendEntriesResponse" /\ r.rpc = "sync"
                 /\ ~r.success /\ ~r.is_busy
                 /\ r.log_length = length_[r.from]
                 /\ r.log_length < Len(slots[r.from])

\* C30: whenever a member of a cluster becomes Leader, also one that was
\* Leader before, it is in safe mode and its own current_leader_, for every
\* other member f next_index_[f] is the length of the log before the Nop and
\* match_index_[f] is -1, one replicator task serves f, and the log ends in
\* a Nop entry of the new current term appended to it
C30_LeaderBootstrap ==
  [][\A n \in members_ : status_[n] # kLeader /\ status_'[n] = kLeader =>
       /\ in_safe_mode_'[n]
       /\ current_leader_'[n] = n
       /\ \A f \in Others(n) : /\ next_index_'[n][f] = length_[n]
                                /\ match_index_'[n][f] = -1
                                /\ f \in replicating_'[n]
                                /\ replicator'[n][f].pc # "none"
       /\ Log(n)' = Append(Log(n), LogEntry(current_term_'[n], kNop, ""))]_vars

\* C27: a member never removes from its log an entry at an index that is
\* not above its commit_index_: no truncation of the AppendEntries handler
\* leaves the log with a last index below commit_index_
C27_CommittedNotTruncated ==
  [][\A n \in members_ : length_'[n] < length_[n] =>
       length_'[n] > commit_index_[n]]_vars

\* C26: the entries two members applied at one index are the same; so a
\* follower whose commit_index_ was set by a heartbeat applies no entry of
\* its log that differs from the entry the leader has at that index
C26_AppliedAgreement ==
  \A a, b \in applied : a[2] = b[2] => a[3] = b[3]

\* C23: the table of pending client acks of a leader never holds more than
\* max_write_pending entries
C23_WritePendingBound ==
  \A n \in members_ :
    status_[n] = kLeader => Cardinality(client_ack_[n]) <= max_write_pending

\* the write at index i of the single node waits for its ack
AckPending(i) == \E a \in client_ack_["A"] : a.index = i

\* the write at index i is applied and was answered with success
AckDone(i) ==
  /\ last_applied_index_["A"] >= i
  /\ \E r \in replies : r.rpc = "ack" /\ r.node = "A" /\ r.index = i /\ r.success

\* C21: in single node mode the election timer, when it fires after the
\* start, makes the node Leader out of safe mode with commit_index_ =
\* last_applied_index_ and the term one higher (1 on a new node), and the
\* term changes in no other step; every write the leader accepts sets
\* commit_index_ to the new last index in the handler, and while the
\* process runs it is applied and answered with success in the end
C21_SingleNodeMode ==
  /\ [][\A n \in members_ :
         /\ status_[n] # kLeader /\ status_'[n] = kLeader =>
              /\ ~in_safe_mode_'[n]
              /\ commit_index_'[n] = last_applied_index_[n]
              /\ current_term_'[n] = current_term_[n] + 1
              /\ restarts[n] = 0 => current_term_'[n] = 1
         /\ current_term_'[n] # current_term_[n] => status_[n] # kLeader
         /\ status_[n] = kLeader /\ length_'[n] > length_[n] =>
              commit_index_'[n] = length_'[n] - 1]_vars
  /\ \A i \in 0..(MaxSingleOps - 1) : \A r \in 0..MaxRestart :
       (AckPending(i) /\ restarts["A"] = r) ~> (AckDone(i) \/ restarts["A"] > r)

\* the node was restarted with an entry applied, became Leader again and
\* has answered a write it accepted after that
C21_WriteAfterRestart ==
  /\ restarts["A"] = 1 /\ status_["A"] = kLeader /\ current_term_["A"] = 2
  /\ \E i \in 1..(MaxSingleOps - 1) : AckDone(i) /\ ~AckDone(i - 1)

\* the leader n holds the write at index i, which waits for its ack
WriteAccepted(n, i) ==
  status_[n] = kLeader /\ \E a \in client_ack_[n] : a.index = i

\* the entry at index i of the leader n is in the log of every follower, is
\* committed and applied on n, and its client was answered with success
WriteServed(n, i) ==
  /\ length_[n] > i
  /\ \A f \in Others(n) : length_[f] > i /\ ReadSlot(f, i) = ReadSlot(n, i)
  /\ commit_index_[n] >= i
  /\ last_applied_index_[n] >= i
  /\ \E r \in replies : r.rpc = "ack" /\ r.node = n /\ r.index = i /\ r.success

\* C25: in a cluster of three whose leader stays, with a transport that
\* loses no replication message and fair replicator, follower and apply
\* tasks, a Put the leader accepts is in the end in the log of both
\* followers, committed, applied and answered with success; a Get that the
\* leader answers after that ack, with no later write committed, reports a
\* hit and the written value
C25_HappyPathWrite ==
  /\ \A n \in HappyCluster : \A i \in 0..MaxHappyOps :
       WriteAccepted(n, i) ~> WriteServed(n, i)
  /\ [][\A g \in replies' \ replies :
          g.rpc = "Get" =>
            /\ g.success
            /\ \A a \in PutAcks :
                 a.node = g.node /\ ~LaterWrite(a.index)' =>
                   g.hit /\ g.value = a.applied.value]_vars

\* the writes of a behaviour were served, and a Get answered after the ack
\* of the last one reports its value
C25_WrittenAndRead ==
  \E n \in members_ :
    /\ \A i \in 1..MaxHappyOps : WriteServed(n, i)
    /\ \E g \in replies : \E a \in PutAcks :
         /\ g.rpc = "Get" /\ g.node = n /\ g.hit
         /\ a.index = MaxHappyOps /\ g.value = a.applied.value

\* C24: a cycle of the session reaper that expires a session removes every
\* watch the session has pending from watch_events_, and the responses it
\* completes for them have canceled = true
C24_ExpiredWatchCanceled ==
  [][\A n \in members_ : \A e \in SUBSET sessions_[n] : \A q \in Orders(e) :
       RemoveExpiredSessions(n, q) =>
         \A s \in e \cap watch_events_[n] :
           /\ s \notin watch_events_'[n]
           /\ \E r \in watch_done' : r.node = n /\ r.session_id = s /\ r.canceled
           /\ \A r \in watch_done' \ watch_done : r.canceled]_vars

\* the watch of session s on n was pending when the entry at index i, which
\* changes the key, was applied, and is pending still
WatchOwed(n, s, i) ==
  /\ s \in watch_events_[n]
  /\ \E task \in event_trigger_[n] : task.index = i /\ s \in task.watchers

\* a watch of s on n was completed with the key, the value and the deleted
\* flag of the entry at index i
WatchPaid(n, s, i) ==
  \E r \in watch_done :
    /\ r.node = n /\ r.session_id = s
    /\ r.success /\ r.watch_key = Key /\ r.key = Key
    /\ length_[n] > i /\ r.value = ReadSlot(n, i).value
    /\ r.deleted = (ReadSlot(n, i).op = kUnLock)

\* C22: a watch that is pending when an entry that changes the key is
\* applied is in the end completed with watch_key = key = the key, the value
\* of that entry and its deleted flag; a watch is removed in the step that
\* fires it; and a Watch whose old_value or key_exist differs from the store
\* is fired in the handler
C22_WatchFiresOnce ==
  /\ \A n \in {"A"} : \A s \in Session : \A i \in 0..MaxWatchOps :
       WatchOwed(n, s, i) ~> WatchPaid(n, s, i)
  /\ [][\A r \in watch_done' \ watch_done :
          r.success => r.session_id \notin watch_events_'[r.node]]_vars
  /\ [][\A n \in members_ : \A s \in Session : \A v \in OldValue : \A e \in BOOLEAN :
          /\ Watch(n, s, v, e)
          /\ \/ v # (IF data_store_[n] = NotFound THEN "" ELSE data_store_[n].value)
             \/ e # (data_store_[n] # NotFound)
          => /\ s \notin watch_events_'[n]
             /\ \E r \in watch_done' : r.node = n /\ r.session_id = s /\ r.success
                                       /\ r.index = -1]_vars

\* C31: on a leader, for every follower whose match_index_ is set (not -1),
\* 0 <= match_index_ < next_index_ <= the length of the log; a refusal that
\* is neither busy nor of a higher term leaves next_index_ at
\* min(next_index_ - 1, log_length), not below 0, and a success advances
\* next_index_ by the batch and leaves match_index_ = next_index_ - 1
C31_FollowerProgress ==
  /\ [](\A n \in members_ : status_[n] = kLeader =>
          \A f \in Others(n) :
            /\ next_index_[n][f] >= 0
            /\ match_index_[n][f] >= 0 =>
                 /\ match_index_[n][f] < next_index_[n][f]
                 /\ next_index_[n][f] <= length_[n])
  /\ [][\A n \in members_ : \A f \in Others(n) : \A m \in net :
          ReplicateLogResponse(n, f, m) /\ status_'[n] = kLeader =>
            IF m.success
              THEN /\ next_index_'[n][f] = next_index_[n][f] + replicator[n][f].batch_span
                   /\ match_index_'[n][f] = next_index_'[n][f] - 1
            ELSE IF m.is_busy
              THEN UNCHANGED <<next_index_, match_index_>>
              ELSE /\ next_index_'[n][f] =
                        Max(0, Min(next_index_[n][f] - 1, m.log_length))
                   /\ UNCHANGED match_index_]_vars

\* C32: a client write that a leader appends has its ack in client_ack_
\* under its index; the ack of an index is removed when the leader applies
\* the index; and in the step in which a node stops being Leader every
\* pending ack is removed and answered with failure, so that none is
\* pending on a node that is not Leader
C32_PendingAckLifecycle ==
  [][\A n \in members_ :
       /\ status_[n] = kLeader /\ client_ops' > client_ops /\ length_'[n] > length_[n] =>
            \E a \in client_ack_'[n] : a.index = length_[n]
       /\ status_[n] = kLeader /\ last_applied_index_'[n] > last_applied_index_[n] =>
            \A a \in client_ack_'[n] : a.index # last_applied_index_'[n]
       /\ status_[n] = kLeader /\ status_'[n] # kLeader /\ restarts' = restarts =>
            /\ client_ack_'[n] = {}
            /\ \A a \in client_ack_[n] :
                 \E r \in replies' : /\ r.rpc = "ack" /\ r.node = n
                                     /\ r.index = a.index /\ ~r.success]_vars


\* ------------------------------------------------------------------------
\* Get by heartbeat broadcast in clusters of two, three and four
\* ------------------------------------------------------------------------
\* clusters of two, three and four with one election, so that the leader
\* stays, that answer Get while calls of the heartbeat for read fail; no
\* heartbeats of BroadCastHeartbeat, no restarts, no client writes: the log
\* holds the Nop of the leader only, so that the window of the apply worker
\* has one entry and its loop no later turn
QuorumClusters == {{"A", "B"}, {"A", "B", "C"}, {"A", "B", "C", "D"}}

InitQuorum ==
  /\ \E cluster \in QuorumClusters : Start(cluster)
  /\ budget = Budget(1 + MaxReadError, 1, 0, MaxReadError, 0, 0)

NextQuorum ==
  \/ \E n \in members_ : TryToBeLeader(n)
  \/ \E n \in members_ : \E m \in net : Vote(n, m)
  \/ \E n \in members_ : \E m \in net : VoteCallback(n, m)
  \/ \E n \in members_ : \E f \in Others(n) : ReplicatorStep(n, f)
  \/ \E n \in members_ : \E m \in net : DoAppendEntries(n, m)
  \/ \E n \in members_ : \E j \in follower_worker[n] :
       RoomInNet /\ DoAppendEntriesAppend(n, j)
  \/ \E n \in members_ : CommitIndexObservWake(n)
  \/ \E n \in members_ : Get(n)
  \/ \E n \in members_ : \E m \in net : HeartbeatForReadCallback(n, m)
  \/ \E n \in members_ : \E f \in Others(n) : HeartbeatForReadFailed(n, f)
  \/ \E n \in members_ : ElectTimeoutMinPasses(n)

SpecQuorum == InitQuorum /\ [][NextQuorum]_vars

\* C34: once every call of a heartbeat for read has had its callback run,
\* the Get it serves has been answered, in clusters of two and more members
C34_QuorumReadTerminates ==
  \A n \in members_ : read_ack_[n].calls = {} => read_ack_[n].triggered


InitReaper ==
  /\ Start({"A", "B"})
  /\ budget = Budget(MaxReaperEvent, 2, 0, 0, 0, MaxReaperEvent - 2)

NextReaper ==
  \/ \E n \in members_ : TryToBeLeader(n)
  \/ \E n \in members_ : \E m \in net : Vote(n, m)
  \/ \E n \in members_ : \E m \in net : VoteCallback(n, m)
  \/ \E n \in members_ : ReplicateLogSend(n, FirstOther(n))
  \/ \E n \in members_ : \E m \in net : ReplicateLogResponse(n, FirstOther(n), m)
  \/ \E n \in members_ : \E m \in net : DoAppendEntries(n, m)
  \/ \E n \in members_ : \E j \in follower_worker[n] : DoAppendEntriesAppend(n, j)
  \/ \E n \in members_ : CommitIndexObservWake(n)
  \/ \E n \in members_ : CommitIndexObservApply(n)
  \/ \E n \in members_ : \E s \in Session : \E locks \in BOOLEAN : KeepAlive(n, s, locks)
  \/ \E n \in members_ : \E s \in Session : Lock(n, s, sessions_[n])
  \/ \E n \in members_ : RemoveExpiredSessionsHead(n)
  \/ \E n \in members_ : \E e \in SUBSET sessions_[n] : \E q \in Orders(e) :
        RemoveExpiredSessions(n, q)

SpecReaper == InitReaper /\ [][NextReaper]_vars

\* C35: a member appends an entry that no leader sent it only while it is
\* Leader (or as it becomes Leader) and with its current term; the terms of
\* the entries of a log do not decrease with the index and none is above the
\* current term of the member
C35_OriginAndTermOrder ==
  /\ [][\A n \in members_ :
          length_'[n] > length_[n] /\ follower_worker'[n] = follower_worker[n] =>
            /\ status_'[n] = kLeader
            /\ \A i \in length_[n]..(length_'[n] - 1) :
                 slots'[n][i + 1].term = current_term_'[n]]_vars
  /\ [](\A n \in members_ : \A i \in 0..(length_[n] - 1) :
          /\ ReadSlot(n, i).term <= current_term_[n]
          /\ i > 0 => ReadSlot(n, i - 1).term <= ReadSlot(n, i).term)


C37_UnlockConditionalDelete ==
  [][\A n \in members_ : \A a \in applied' \ applied :
       a[1] = n /\ a[3].op = kUnLock =>
         IF data_store_[n].op = kLock /\ data_store_[n].value = a[3].value
           THEN /\ data_store_'[n] = NotFound
                /\ \E t \in event_trigger_'[n] \ event_trigger_[n] :
                     t.index = a[2] /\ t.deleted
           ELSE /\ data_store_'[n] = data_store_[n]
                /\ event_trigger_'[n] = event_trigger_[n]]_vars

\* the last entry applied is an Unlock and the key still holds a Put value
C37_UnlockLeftPutValue ==
  \E n \in members_ : \E a \in applied :
    /\ a[1] = n /\ a[2] = last_applied_index_[n] /\ a[3].op = kUnLock
    /\ data_store_[n].op = kPut


\* C38: the bookkeeping of the BinLogger. Every index below the length holds
\* an entry; an append writes its entries at the length and above and adds
\* their number to the length; GetLastLogIndexAndTerm gives the length less
\* one and the term of the entry stored there, and the term -1 when the log
\* is empty, also when a truncation emptied it
C38_BinLogBookkeeping ==
  /\ [](\A n \in members_ :
          /\ Len(slots[n]) >= length_[n]
          /\ GetLastLogIndex(n) = length_[n] - 1
          /\ last_log_term_[n] = IF length_[n] = 0 THEN -1
                                 ELSE ReadSlot(n, length_[n] - 1).term)
  /\ [][\A n \in members_ :
          length_'[n] > length_[n] /\ follower_worker'[n] = follower_worker[n] =>
            /\ \A i \in 0..(length_[n] - 1) : slots'[n][i + 1] = slots[n][i + 1]
            /\ last_log_term_'[n] = slots'[n][length_'[n]].term]_vars


\* a single node that serves Scan of a store that holds Put values and locks
\* of two clients under the keys of ScanKey, with the sessions of the clients
\* kept alive or expired
InitScan ==
  /\ Start({"A"})
  /\ budget = Budget(MaxSessionOps, 0, 0, 0, 0, MaxSessionOps)

NextScan ==
  \/ \E n \in members_ : TryToBeLeaderSingleNode(n)
  \/ \E n \in members_ : SessionExpireTimeoutPasses(n)
  \/ \E n \in members_ : \E s \in Client : KeepAlive(n, s, FALSE)
  \/ \E n \in members_ : \E e \in SUBSET sessions_[n] : \E q \in Orders(e) :
        RemoveExpiredSessions(n, q)
  \/ \E key \in ScanKey : \E v \in PutValue : StorePut(key, kPut, v)
  \/ \E key \in ScanKey : \E s \in Client : StorePut(key, kLock, s)
  \/ \E n \in members_ : \E start_key, end_key \in ScanKey \cup {NoKey} :
       \E size_limit \in 0..MaxScanLimit : Scan(n, start_key, end_key, size_limit)

SpecScan == InitScan /\ [][NextScan]_vars

\* C39: a successful Scan returns at most size_limit items, in the order of
\* their keys, all with keys from start_key on and below end_key (any key
\* when end_key is empty), none of them tag_last_applied_index; has_more is
\* set only when the limit was reached
C39_ScanWithinLimit ==
  \A r \in replies : r.rpc = "Scan" /\ r.success =>
    /\ Len(r.items) <= r.size_limit
    /\ \A i \in 1..Len(r.items) :
         /\ r.items[i].key >= r.start_key
         /\ r.items[i].key < r.end_key \/ r.end_key = NoKey
         /\ r.items[i].key # tag_last_applied_index
         /\ i > 1 => r.items[i - 1].key < r.items[i].key
    /\ r.has_more => Len(r.items) >= r.size_limit


\* C40: a Leader in safe mode registers no watch: no session is added to its
\* watch table; and a Watch of a session that has a watch on the key cancels
\* that one, so that the table holds one watch of the session on the key
C40_WatchNotInSafeMode ==
  [][\A n \in members_ :
       /\ status_[n] = kLeader /\ in_safe_mode_[n] =>
            watch_events_'[n] \subseteq watch_events_[n]
       /\ \A s \in Session : \A v \in OldValue : \A e \in BOOLEAN :
            Watch(n, s, v, e) /\ s \in watch_events_[n] =>
              WatchCanceled(n, s) \in watch_done']_vars

====
